---- MODULE Spec2Model ----
(***************************************************************************)
(* Interview backend of tkc_Chatbot (backend/server.js): the knowledge     *)
(* store (saveNewKnowledge, mergeFacts, the global JSON-LD / Turtle        *)
(* files), the session store and the dialogue controller of                *)
(* POST /api/retrieve, modelled as a state machine.                        *)
(*                                                                         *)
(* Conventions.  A JSON value is a record with the fixed fields t, n, d,   *)
(* s, l (tag, numerator, denominator, string, list) so that any two values *)
(* can be compared.  A JavaScript object with optional keys (a FactSet) is *)
(* a function whose DOMAIN is the set of keys that are present.  A         *)
(* nullable object reference is a sequence of length 0 (null) or 1.        *)
(* Probabilities (confidence, wrote_prob) are counted in hundredths.       *)
(***************************************************************************)
EXTENDS Integers, Sequences, FiniteSets, TLC

VARIABLES
    sessions,   \* conversations.json: store.sessions, sessionId -> session
    catalog,    \* TestText.json: the course entries with their New_Knowledge
    kgJsonld,   \* knowledge_graph.jsonld: array of documents
    kgTurtle,   \* knowledge.ttl: the appended blocks
    evaluations,\* evaluations.jsonl: the appended records
    inflight,   \* the requests suspended at an await, each with the store it loaded
    call,       \* the function applied last on its own, with its arguments
    ret,        \* what that application returned
    last        \* history variable: the operation of the last step

vars == <<sessions, catalog, kgJsonld, kgTurtle, evaluations, inflight, call, ret, last>>

(***************************************************************************)
(* Bounds of the model.                                                    *)
(***************************************************************************)
MaxSaves == 3
MaxTranscript == 6
MaxTurnSaves == 1
MaxLongTranscript == 22
MaxFaults == 2
MaxEvalTranscript == 4
MaxEvaluations == 2
MaxInflight == 2
MaxConcTranscript == 4
MaxFactsTranscript == 10
MaxNormLen == 4
MaxResolveTranscript == 8
MaxDegradedTranscript == 12
MaxRunSaves == 2
MaxDeleteTranscript == 2
MaxK == 3

Null == "null"

\* No function has been applied on its own.
NoCall == [fn |-> "none"]

(***************************************************************************)
(* JSON values                                                             *)
(***************************************************************************)
JNull == [t |-> "null", n |-> 0, d |-> 1, s |-> "", l |-> <<>>]
JNum(x) == [t |-> "num", n |-> x, d |-> 1, s |-> "", l |-> <<>>]
JStr(x) == [t |-> "str", n |-> 0, d |-> 1, s |-> x, l |-> <<>>]
JList(x) == [t |-> "list", n |-> 0, d |-> 1, s |-> "", l |-> x]
JBool(b) == [t |-> "bool", n |-> IF b THEN 1 ELSE 0, d |-> 1, s |-> "", l |-> <<>>]
\* The number n/d
JFrac(n, d) == [t |-> "num", n |-> n, d |-> d, s |-> "", l |-> <<>>]
\* An object, named by what it holds
JObj(x) == [t |-> "obj", n |-> 0, d |-> 1, s |-> x, l |-> <<>>]

\* JavaScript truthiness (Boolean(v), `if (v)`, `v || w`).
Truthy(v) ==
    CASE v.t = "null" -> FALSE
      [] v.t = "num" -> v.n # 0
      [] v.t = "str" -> v.s # ""
      [] v.t = "bool" -> v.n = 1
      [] OTHER -> TRUE

\* Number.isFinite(v): a number, and not a string that looks like one.
IsFiniteNum(v) == v.t = "num"

\* Array.isArray(v)
IsArray(v) == v.t = "list"

(***************************************************************************)
(* FactSets                                                                *)
(***************************************************************************)
ScalarKeys == <<"exam_type", "prep_weeks", "hours_per_week", "difficulty_1_5">>
ListKeys == <<"strategies", "materials", "pitfalls", "tips">>

Range(sq) == {sq[i] : i \in 1..Len(sq)}

EmptyFacts == [k \in {} |-> JNull]

\* obj[k] with undefined read as null: every use below is `!= null`, `??` or a
\* truthiness test, which do not tell the two apart.
Get(f, k) == IF k \in DOMAIN f THEN f[k] ELSE JNull

\* { ...a, ...b }
Spread(a, b) ==
    [k \in DOMAIN a \cup DOMAIN b |-> IF k \in DOMAIN b THEN b[k] ELSE a[k]]

RECURSIVE FilterTruthyStr(_)
FilterTruthyStr(sq) ==
    IF sq = <<>> THEN <<>>
    ELSE IF Head(sq) = "" THEN FilterTruthyStr(Tail(sq))
         ELSE <<Head(sq)>> \o FilterTruthyStr(Tail(sq))

\* Array.from(new Set(sq)): first occurrences, in order.
RECURSIVE DedupFrom(_, _)
DedupFrom(sq, seen) ==
    IF sq = <<>> THEN <<>>
    ELSE IF Head(sq) \in seen THEN DedupFrom(Tail(sq), seen)
         ELSE <<Head(sq)>> \o DedupFrom(Tail(sq), seen \cup {Head(sq)})

Dedup(sq) == DedupFrom(sq, {})

ArrayOrEmpty(v) == IF IsArray(v) THEN v.l ELSE <<>>

mergeFacts_BaseWins(base, add) ==
    [k \in DOMAIN base
           \cup {k \in Range(ScalarKeys) : Get(add, k).t # "null"}
           \cup Range(ListKeys) |->
        IF k \in Range(ListKeys)
        THEN JList(Dedup(FilterTruthyStr(
                 ArrayOrEmpty(Get(base, k)) \o ArrayOrEmpty(Get(add, k)))))
        ELSE IF Get(base, k).t # "null" THEN base[k] ELSE Get(add, k)]

mergeFacts_NullErases(base, add) ==
    [k \in DOMAIN base \cup (Range(ScalarKeys) \cap DOMAIN add) \cup Range(ListKeys) |->
        IF k \in Range(ListKeys)
        THEN JList(Dedup(FilterTruthyStr(
                 ArrayOrEmpty(Get(base, k)) \o ArrayOrEmpty(Get(add, k)))))
        ELSE IF k \in DOMAIN add THEN add[k] ELSE base[k]]

mergeFacts(base, add) ==
    [k \in DOMAIN base
           \cup {k \in Range(ScalarKeys) : Get(add, k).t # "null"}
           \cup Range(ListKeys) |->
        IF k \in Range(ListKeys)
        THEN JList(Dedup(FilterTruthyStr(
                 ArrayOrEmpty(Get(base, k)) \o ArrayOrEmpty(Get(add, k)))))
        ELSE IF Get(add, k).t # "null" THEN add[k] ELSE base[k]]

(***************************************************************************)
(* Titles.  Strings are atoms in the model; the three string functions the *)
(* knowledge store applies to titles are given on the titles that occur.   *)
(***************************************************************************)
TitleMathe == "Mathe 1"
TitleStat == "Statistik [T-2]"
TitleStatLower == "statistik"

\* String(title||"").replace(/\s*\[T-[A-Z0-9-]+\]\s*/g, "").trim()
cleanTitle(title) ==
    CASE title = Null -> ""
      [] title = TitleStat -> "Statistik"
      [] OTHER -> title

\* s.toLowerCase()
toLowerCase(str) ==
    CASE str = "Mathe 1" -> "mathe 1"
      [] str = "Statistik" -> "statistik"
      [] OTHER -> str

\* (title||"").includes(`[${tlId}]`)
titleIncludesId(title, tlId) == title = TitleStat /\ tlId = "T-2"

\* /\[(T-[A-Z0-9\-]+)\]/i.exec(title)[1], or Null
bracketId(title) == IF title = TitleStat THEN "T-2" ELSE Null

(***************************************************************************)
(* Catalog file.  Entry 1 carries teilleistung_id, entry 2 carries its id  *)
(* only in the bracketed suffix of the title.  Of the descriptor text an    *)
(* entry holds the length, textLen, and the length without the white space *)
(* at its ends, trimLen.                                                   *)
(***************************************************************************)
InitialCatalog ==
    << [teilleistung_id |-> "T-1", title |-> TitleMathe, textLen |-> 250,
        trimLen |-> 250, dozent |-> "Prof. A",
        New_Knowledge |-> <<>>],
       [teilleistung_id |-> Null, title |-> TitleStat, textLen |-> 40, trimLen |-> 40,
        dozent |-> Null,
        New_Knowledge |-> <<>>] >>

\* The in-memory index built at load time from the catalog file.
teilleistungen ==
    [i \in 1..Len(catalog) |->
        [id |-> IF catalog[i].teilleistung_id # Null
                THEN catalog[i].teilleistung_id
                ELSE bracketId(catalog[i].title),
         title |-> catalog[i].title]]

(***************************************************************************)
(* Ontology output                                                         *)
(***************************************************************************)
toJSONLD(tlId, tlTitle, sessionId, facts) ==
    [id |-> IF tlId # Null THEN tlId ELSE toLowerCase(tlTitle),
     name |-> tlTitle,
     examType |-> Get(facts, "exam_type"),
     difficulty |-> Get(facts, "difficulty_1_5"),
     prepWeeks |-> Get(facts, "prep_weeks"),
     hoursPerWeek |-> Get(facts, "hours_per_week"),
     strategy |-> IF Get(facts, "strategies").t = "null" THEN JList(<<>>)
                  ELSE facts["strategies"],
     material |-> IF Get(facts, "materials").t = "null" THEN JList(<<>>)
                  ELSE facts["materials"],
     pitfall |-> IF Get(facts, "pitfalls").t = "null" THEN JList(<<>>)
                 ELSE facts["pitfalls"],
     tip |-> IF Get(facts, "tips").t = "null" THEN JList(<<>>)
             ELSE facts["tips"],
     evidence |-> sessionId]

TurtleItems(pred, v) ==
    [i \in 1..Len(ArrayOrEmpty(v)) |-> [p |-> pred, o |-> JStr(v.l[i])]]

\* One subject block: the lines after the two prefix lines, as (predicate, object).
toTurtle(tlId, tlTitle, sessionId, f) ==
    << [p |-> "subject",
        o |-> JStr(IF tlId # Null THEN tlId ELSE toLowerCase(tlTitle))],
       [p |-> "schema:name", o |-> JStr(tlTitle)] >>
    \o (IF Truthy(Get(f, "exam_type"))
        THEN <<[p |-> "ex:examType", o |-> f["exam_type"]]>> ELSE <<>>)
    \o (IF IsFiniteNum(Get(f, "difficulty_1_5"))
        THEN <<[p |-> "ex:difficulty", o |-> f["difficulty_1_5"]]>> ELSE <<>>)
    \o (IF IsFiniteNum(Get(f, "prep_weeks"))
        THEN <<[p |-> "ex:prepWeeks", o |-> f["prep_weeks"]]>> ELSE <<>>)
    \o (IF IsFiniteNum(Get(f, "hours_per_week"))
        THEN <<[p |-> "ex:hoursPerWeek", o |-> f["hours_per_week"]]>> ELSE <<>>)
    \o TurtleItems("ex:strategy", Get(f, "strategies"))
    \o TurtleItems("ex:material", Get(f, "materials"))
    \o TurtleItems("ex:pitfall", Get(f, "pitfalls"))
    \o TurtleItems("ex:tip", Get(f, "tips"))
    \o << [p |-> "ex:evidence", o |-> JStr(sessionId)] >>

\* The knowledge store: the catalog file and the two global graph files.
KS(cat, jl, ttl) == [catalog |-> cat, jsonld |-> jl, turtle |-> ttl]

appendToGlobalGraphs_Overwrite(ks, jsonldDoc, ttlChunk) ==
    [ks EXCEPT !.jsonld = <<jsonldDoc>>, !.turtle = Append(@, ttlChunk)]

appendToGlobalGraphs(ks, jsonldDoc, ttlChunk) ==
    [ks EXCEPT !.jsonld = Append(@, jsonldDoc), !.turtle = Append(@, ttlChunk)]

(***************************************************************************)
(* saveNewKnowledge                                                        *)
(***************************************************************************)
MatchesEntry(e, tlId, tlTitleClean) ==
    \/ e.teilleistung_id # Null /\ e.teilleistung_id = tlId
    \/ titleIncludesId(e.title, tlId)
    \/ toLowerCase(cleanTitle(e.title)) = toLowerCase(cleanTitle(tlTitleClean))

\* raw.findIndex(...): the first matching index, 0 for -1
CatalogIndex(cat, tlId, tlTitleClean) ==
    LET hits == {i \in 1..Len(cat) : MatchesEntry(cat[i], tlId, tlTitleClean)}
    IN IF hits = {} THEN 0 ELSE CHOOSE i \in hits : \A j \in hits : i <= j

\* The index of the last entry of the same session, 0 for none
LastSameSessionIdx(nk, sessionId) ==
    LET hits == {i \in 1..Len(nk) : nk[i].sessionId = sessionId}
    IN IF hits = {} THEN 0 ELSE CHOOSE i \in hits : \A j \in hits : i >= j

NKEntry(sessionId, facts, jsonldDoc, ttlChunk) ==
    [sessionId |-> sessionId, facts |-> facts, jsonld |-> jsonldDoc, ttl |-> ttlChunk]

\* The result: the store after the call, whether it returned true, and whether
\* the merge branch was taken.
saveNewKnowledge_AlwaysAppend(ks, tlId, sessionId, tlTitleClean, newFacts) ==
    LET idx == CatalogIndex(ks.catalog, tlId, tlTitleClean)
        jsonldDoc == toJSONLD(tlId, tlTitleClean, sessionId, newFacts)
        ttlChunk == toTurtle(tlId, tlTitleClean, sessionId, newFacts)
    IN IF idx = 0 THEN [ks |-> ks, ok |-> FALSE, merged |-> FALSE]
       ELSE [ks |-> appendToGlobalGraphs(
                        [ks EXCEPT !.catalog[idx].New_Knowledge =
                            Append(@, NKEntry(sessionId, newFacts, jsonldDoc, ttlChunk))],
                        jsonldDoc, ttlChunk),
             ok |-> TRUE, merged |-> FALSE]

saveNewKnowledge(ks, tlId, sessionId, tlTitleClean, newFacts) ==
    LET idx == CatalogIndex(ks.catalog, tlId, tlTitleClean)
    IN IF idx = 0 THEN [ks |-> ks, ok |-> FALSE, merged |-> FALSE]
       ELSE
         LET nk == ks.catalog[idx].New_Knowledge
             realIdx == LastSameSessionIdx(nk, sessionId)
         IN IF realIdx > 0
            THEN
              LET mergedFacts == mergeFacts(nk[realIdx].facts, newFacts)
                  jsonldDoc == toJSONLD(tlId, tlTitleClean, sessionId, mergedFacts)
                  ttlChunk == toTurtle(tlId, tlTitleClean, sessionId, mergedFacts)
              IN [ks |-> appendToGlobalGraphs(
                             [ks EXCEPT !.catalog[idx].New_Knowledge[realIdx] =
                                 NKEntry(sessionId, mergedFacts, jsonldDoc, ttlChunk)],
                             jsonldDoc, ttlChunk),
                  ok |-> TRUE, merged |-> TRUE]
            ELSE
              LET jsonldDoc == toJSONLD(tlId, tlTitleClean, sessionId, newFacts)
                  ttlChunk == toTurtle(tlId, tlTitleClean, sessionId, newFacts)
              IN [ks |-> appendToGlobalGraphs(
                             [ks EXCEPT !.catalog[idx].New_Knowledge =
                                 Append(@, NKEntry(sessionId, newFacts, jsonldDoc, ttlChunk))],
                             jsonldDoc, ttlChunk),
                  ok |-> TRUE, merged |-> FALSE]

\* conversations.json without a session
EmptyStore == [x \in {} |-> Null]

(***************************************************************************)
(* History record of the last step                                         *)
(***************************************************************************)
LastRec(op, sid) ==
    [op |-> op, sid |-> sid, tl |-> Null, title |-> Null, facts |-> EmptyFacts,
     ok |-> FALSE, merged |-> FALSE, err |-> "none", path |-> "", user |-> "",
     mem_stage |-> "", ratings |-> <<>>, streak |-> -1, faults |-> 0]

(***************************************************************************)
(* The knowledge store on its own: save_new_knowledge applied to inputs    *)
(* drawn from small sets, by two sessions, in any order.                   *)
(***************************************************************************)
SessionIds == {"s1", "s2"}
\* (tlId, clean title) as the controller passes them: the two catalog courses,
\* an id the catalog does not hold with a title it holds, and an unknown course.
SaveTargets ==
    { <<"T-1", "Mathe 1">>, <<"T-2", "Statistik">>,
      <<"T-9", TitleStatLower>>, <<"T-9", "Unbekannt">> }

\* FactSets as the fact extraction can deliver them.
FactsExamStrat ==
    [k \in {"exam_type", "strategies"} |->
        IF k = "exam_type" THEN JStr("schriftlich") ELSE JList(<<"Altklausuren">>)]
FactsDiffStrat ==
    [k \in {"exam_type", "difficulty_1_5", "strategies"} |->
        CASE k = "exam_type" -> JNull
          [] k = "difficulty_1_5" -> JNum(4)
          [] OTHER -> JList(<<"Lerngruppe">>)]
FactsRepeated ==
    [k \in {"tips", "materials"} |->
        IF k = "tips" THEN JList(<<"früh anfangen", "", "früh anfangen">>) ELSE JNull]
FactInputs == {FactsExamStrat, FactsDiffStrat, FactsRepeated}

KSInit ==
    /\ sessions = EmptyStore
    /\ catalog \in {InitialCatalog, <<>>}
    /\ kgJsonld = <<>>
    /\ kgTurtle = <<>>
    /\ evaluations = <<>>
    /\ inflight = <<>>
    /\ call = NoCall
    /\ ret = NoCall
    /\ last = LastRec("init", Null)

KSSave(tlId, sessionId, tlTitleClean, newFacts) ==
    /\ Len(kgTurtle) < MaxSaves
    /\ LET r == saveNewKnowledge(KS(catalog, kgJsonld, kgTurtle),
                                 tlId, sessionId, tlTitleClean, newFacts)
       IN /\ catalog' = r.ks.catalog
          /\ kgJsonld' = r.ks.jsonld
          /\ kgTurtle' = r.ks.turtle
          /\ last' = [LastRec("save", sessionId) EXCEPT
                         !.tl = tlId, !.title = tlTitleClean, !.facts = newFacts,
                         !.ok = r.ok, !.merged = r.merged]
    /\ UNCHANGED <<sessions, evaluations, inflight, call, ret>>

KSNext ==
    \E target \in SaveTargets, sessionId \in SessionIds, newFacts \in FactInputs :
        KSSave(target[1], sessionId, target[2], newFacts)

SpecKS == KSInit /\ [][KSNext]_vars

(***************************************************************************)
(* Sessions.  A transcript entry is (role, content); a content is the      *)
(* sequence of the strings the code concatenates.  Timestamps and the meta *)
(* (phase, rationale) of an entry are left out: no code reads them.        *)
(***************************************************************************)
Greeting == <<"Hallo, ich bin dein Interview-Chatbot!">>
MsgDisabledDefault == <<"Ich kann gerade keine Antworten erzeugen (LLM deaktiviert).">>
MsgQuota == <<"Ich kann gerade keine Antworten erzeugen: Kontingent aufgebraucht.">>
MsgRate == <<"Ich wurde kurz gebremst (Rate Limit).">>
MsgError == <<"Es gab ein technisches Problem.">>
MsgReprompt == <<"Nur zur Sicherheit: Hattest du diese Klausur bereits geschrieben?">>
MsgRemind == <<"Wenn eine Option passte, sag bitte die erste oder nenne den Titel.">>
MsgFallbackTitle == <<"Lass uns mit einer geschriebenen Klausur weitermachen.">>
IdentifyFallback == "Wie lautet der exakte Titel der bereits geschriebenen Klausur?"
PoolEmptyFallback == "Wie lief dein bisheriger Studienverlauf insgesamt?"

DefaultCurrent ==
    [area |-> Null, tl_id |-> Null, tl_title |-> Null,
     awaiting_written_confirm |-> FALSE,
     awaiting_title_written_confirm |-> FALSE,
     candidates |-> <<>>, awaiting_candidate_choice |-> FALSE,
     tl_facts |-> EmptyFacts, in_tl_rounds |-> 0,
     declinedWritten |-> <<>>, last_confirm_tl |-> Null,
     awaiting_tl_title_confirm |-> FALSE,
     pending_tl_candidate |-> <<>>]

NewSession ==
    [evaluation |-> [state |-> Null, answers |-> <<>>],
     stage |-> "await_semester_progress",
     general |-> [semester |-> JNull, progress_percent |-> JNull],
     counters |-> [general_q |-> 0],
     asked_log |-> <<>>,
     current |-> DefaultCurrent,
     flags |-> [llm_disabled |-> FALSE, llm_disabled_reason |-> <<>>],
     transcript |-> <<>>]

\* store.sessions[sessionId] || (store.sessions[sessionId] = {...})
upsertSession(store, sessionId) ==
    IF sessionId \in DOMAIN store THEN store
    ELSE [x \in DOMAIN store \cup {sessionId} |->
             IF x = sessionId THEN NewSession ELSE store[x]]

\* On the sessions this code writes every field is present and well typed, so
\* the only defaults that can apply are the ones for falsy values.
sanitizeSessionShape(s) ==
    [s EXCEPT !.stage = IF @ = "" THEN "await_semester_progress" ELSE @,
              !.current.last_confirm_tl = IF @ = "" THEN Null ELSE @]

pushTranscript(s, role, content) ==
    IF /\ s.transcript # <<>>
       /\ s.transcript[Len(s.transcript)].role = role
       /\ s.transcript[Len(s.transcript)].content = content
    THEN s
    ELSE [s EXCEPT !.transcript = Append(@, [role |-> role, content |-> content])]

addAssistantTurn(s, text) == pushTranscript(s, "assistant", text)

hasIntroGreeting(s) ==
    \E i \in 1..Len(s.transcript) :
        s.transcript[i].role = "assistant" /\ s.transcript[i].content = Greeting

ensureIntroGreeting_Always(s) == addAssistantTurn(s, Greeting)

ensureIntroGreeting(s) ==
    IF hasIntroGreeting(s) THEN s ELSE addAssistantTurn(s, Greeting)

\* The fields interview.start (force) and interview.reset assign.
ResetFields(s) ==
    [s EXCEPT !.stage = "await_semester_progress",
              !.general = [semester |-> JNull, progress_percent |-> JNull],
              !.counters = [general_q |-> 0],
              !.asked_log = <<>>,
              !.current = DefaultCurrent,
              !.flags = [llm_disabled |-> FALSE, llm_disabled_reason |-> <<>>],
              !.transcript = <<>>]

(***************************************************************************)
(* Catalog index: norm, dice, tokenJacc, score, candidates.  norm is given *)
(* on the strings that occur, as the sequence of characters it returns.    *)
(***************************************************************************)
norm(str) ==
    CASE str = "Mathe" -> <<"m", "a", "t", "h", "e">>
      [] str = TitleMathe -> <<"m", "a", "t", "h", "e", " ", "1">>
      [] str = "Statistik" -> <<"s", "t", "a", "t", "i", "s", "t", "i", "k">>
      [] str = TitleStat ->
           <<"s", "t", "a", "t", "i", "s", "t", "i", "k", " ", "t", "-", "2">>
      [] OTHER -> <<>>

Bigrams(t) == [i \in 1..(IF Len(t) > 1 THEN Len(t) - 1 ELSE 0) |-> <<t[i], t[i + 1]>>]

CountIn(x, sq) == Cardinality({i \in 1..Len(sq) : sq[i] = x})

\* The loop over B: B[j] counts while occurrences of it are left in A's map.
DiceInter(A, B) ==
    Cardinality({j \in 1..Len(B) :
                    CountIn(B[j], SubSeq(B, 1, j)) <= CountIn(B[j], A)})

\* norm(s).split(" ").filter(Boolean), as a set
RECURSIVE TokensFrom(_, _)
TokensFrom(t, cur) ==
    IF t = <<>> THEN (IF cur = <<>> THEN {} ELSE {cur})
    ELSE IF Head(t) = " "
         THEN (IF cur = <<>> THEN {} ELSE {cur}) \cup TokensFrom(Tail(t), <<>>)
         ELSE TokensFrom(Tail(t), Append(cur, Head(t)))

Tokens(str) == TokensFrom(norm(str), <<>>)

\* dice and tokenJacc as fractions <<numerator, denominator>>
diceOf(A, B) ==
    IF Len(A) = 0 \/ Len(B) = 0 THEN <<0, 1>>
    ELSE <<2 * DiceInter(A, B), Len(A) + Len(B)>>

dice(a, b) ==
    CHOOSE d \in {diceOf(A, B) : A \in {Bigrams(norm(a))},
                                   B \in {Bigrams(norm(b))}} : TRUE

tokenJaccOf_OverFirst(A, B) ==
    IF A = {} THEN <<0, 1>> ELSE <<Cardinality(A \cap B), Cardinality(A)>>

tokenJaccOf(A, B) ==
    LET inter == Cardinality(A \cap B)
        uni == Cardinality(A) + Cardinality(B) - inter
    IN IF uni = 0 THEN <<0, 1>> ELSE <<inter, uni>>

tokenJacc(a, b) ==
    CHOOSE j \in {tokenJaccOf(A, B) : A \in {Tokens(a)}, B \in {Tokens(b)}} : TRUE

\* 0.6*dice + 0.4*tokenJacc, as a fraction
scoreOf(dc, jc) == <<6 * dc[1] * jc[2] + 4 * jc[1] * dc[2], 10 * dc[2] * jc[2]>>

score(query, title) ==
    CHOOSE sc \in {scoreOf(dc, jc) : dc \in {dice(query, title)},
                                     jc \in {tokenJacc(query, title)}} : TRUE

ScoreLess(x, y) == x[1] * y[2] < y[1] * x[2]

\* teilleistungen.map(t => ({...t, score: score(query, t.title)})), with the
\* position each element has in the array the sort receives.
scored(query, tl) ==
    {[idx |-> i, t |-> tl[i], score |-> score(query, tl[i].title)] : i \in 1..Len(tl)}

\* .sort((a,b) => b.score - a.score).slice(0,k): descending, stable.
sortSlice(arr, k) ==
    LET Before(x, y) ==
            \/ ScoreLess(y.score, x.score)
            \/ ~ScoreLess(x.score, y.score) /\ x.idx < y.idx
        Rank(x) == 1 + Cardinality({y \in arr : y # x /\ Before(y, x)})
        n == IF Cardinality(arr) < k THEN Cardinality(arr) ELSE k
    IN [r \in 1..n |-> (CHOOSE x \in arr : Rank(x) = r).t]

candidates(query, k) ==
    CHOOSE top \in {sortSlice(arr, k) : arr \in {scored(query, tl) : tl \in {teilleistungen}}} : TRUE

getCatalogEntryById(cat, tlId) ==
    LET hits == {i \in 1..Len(cat) :
                    \/ cat[i].teilleistung_id # Null /\ cat[i].teilleistung_id = tlId
                    \/ titleIncludesId(cat[i].title, tlId)}
    IN IF hits = {} THEN <<>>
       ELSE <<cat[CHOOSE i \in hits : \A j \in hits : i <= j]>>

getPrimaryInstructor(cat, tlId) ==
    LET e == getCatalogEntryById(cat, tlId)
    IN IF e = <<>> THEN Null ELSE e[1].dozent

(***************************************************************************)
(* Least-known heuristic                                                   *)
(***************************************************************************)
factsSignalScore(facts) ==
    (IF Truthy(Get(facts, "exam_type")) THEN 1 ELSE 0)
    + (IF IsFiniteNum(Get(facts, "difficulty_1_5")) THEN 1 ELSE 0)
    + (IF IsFiniteNum(Get(facts, "prep_weeks")) THEN 1 ELSE 0)
    + (IF IsFiniteNum(Get(facts, "hours_per_week")) THEN 1 ELSE 0)
    + Cardinality({k \in Range(ListKeys) :
                      IsArray(Get(facts, k)) /\ Len(Get(facts, k).l) > 0})

infoScoreForTlId(cat, tlId) ==
    LET e == getCatalogEntryById(cat, tlId)
        RECURSIVE SumNK(_)
        SumNK(nk) == IF nk = <<>> THEN 0
                     ELSE factsSignalScore(Head(nk).facts) + SumNK(Tail(nk))
    IN IF e = <<>> THEN 0
       ELSE SumNK(e[1].New_Knowledge)
            + (IF Len(e[1].New_Knowledge) < 2 THEN Len(e[1].New_Knowledge) ELSE 2)
            + (IF e[1].trimLen > 200 THEN 1 ELSE 0)

pickLeastKnownOfResolved_Last(cat, resolvedList) ==
    resolvedList[CHOOSE i \in 1..Len(resolvedList) :
        /\ \A j \in 1..Len(resolvedList) :
              infoScoreForTlId(cat, resolvedList[i].id)
                <= infoScoreForTlId(cat, resolvedList[j].id)
        /\ \A j \in (i + 1)..Len(resolvedList) :
              infoScoreForTlId(cat, resolvedList[j].id)
                > infoScoreForTlId(cat, resolvedList[i].id)]

\* The first element with the minimum score (the loop replaces on `<` only).
pickLeastKnownOfResolved(cat, resolvedList) ==
    resolvedList[CHOOSE i \in 1..Len(resolvedList) :
        /\ \A j \in 1..Len(resolvedList) :
              infoScoreForTlId(cat, resolvedList[i].id)
                <= infoScoreForTlId(cat, resolvedList[j].id)
        /\ \A j \in 1..(i - 1) :
              infoScoreForTlId(cat, resolvedList[j].id)
                > infoScoreForTlId(cat, resolvedList[i].id)]

(***************************************************************************)
(* Question pools (Fragenset.json) and the pool fallback                   *)
(***************************************************************************)
Phase1Pool == <<"Wie zufrieden bist du mit deiner Studienwahl?">>
Phase3Pool == <<"Welche Materialien hast du genutzt?">>
Phase4Pool ==
    <<"Gibt es eine weitere Klausur, über die du berichten möchtest?",
      "Welche Klausur hast du außerdem geschrieben?">>

\* The set of values pickRandomFromPool can return.
pickRandomFromPool(pool, askedLog) ==
    LET remaining == {q \in Range(pool) : q \notin Range(askedLog)}
        base == IF remaining # {} THEN remaining ELSE Range(pool)
    IN IF base = {} THEN {PoolEmptyFallback} ELSE base

(***************************************************************************)
(* Oracle adapter.  A classifier is the oracle's reply (drawn from the     *)
(* profile P of the specification) passed through the parsing and clamping *)
(* of its llm* function.  A reply that parses to an object is the one-     *)
(* element sequence of that object, any other reply is NoObject; a reply   *)
(* read for one string is that string, NoJSON for none.                    *)
(***************************************************************************)
NoJSON == "<no json>"
NoObject == <<>>
Object(r) == <<r>>

Clamp(lo, hi, x) == IF x < lo THEN lo ELSE IF x > hi THEN hi ELSE x

\* A controller that aborts unless the reply says "continue"
llmControlIntent_AbortDefault(reply) == IF reply = "continue" THEN "continue" ELSE "abort"

\* llmControlIntent: "abort" only when the reply says so.
llmControlIntent(reply) == IF reply = "abort" THEN "abort" ELSE "continue"

\* llmDetectEntities, on a reply [found_area, found_tl_text, found_tl_list,
\* temporal_hint, wrote_prob]
DetectNothing ==
    [found_area |-> Null, found_tl_text |-> Null, found_tl_list |-> <<>>,
     temporal_hint |-> "", wrote_prob |-> JNull]

llmDetectEntities(reply) ==
    LET d == IF reply = NoObject THEN DetectNothing ELSE reply[1]
    IN [d EXCEPT !.temporal_hint = IF @ = "" THEN "unknown" ELSE @,
                 !.wrote_prob = IF IsFiniteNum(@) THEN JNum(Clamp(0, 100, @.n))
                                ELSE JNull]

\* llmResolveTL, on a reply [match_id, match_title, confidence, need_clarify,
\* clarify_question]
ResolveNothing ==
    [match_id |-> Null, match_title |-> Null, confidence |-> JNull,
     need_clarify |-> FALSE, clarify_question |-> Null]

llmResolveTL(reply, cand) ==
    LET r == IF reply = NoObject THEN ResolveNothing ELSE reply[1]
        hits == {i \in 1..Len(cand) : cand[i].id = r.match_id}
    IN [r EXCEPT !.confidence = IF IsFiniteNum(@) THEN Clamp(0, 100, @.n) ELSE 0,
                 !.match_title =
                     IF r.match_id # Null /\ @ = Null /\ hits # {}
                     THEN cand[CHOOSE i \in hits : \A j \in hits : i <= j].title
                     ELSE @]

\* llmCombinedTitleWrittenClassifier, on a reply [title_match, wrote]
llmCombinedTitleWrittenClassifier(reply) ==
    IF reply = NoObject THEN [title_match |-> "unclear", wrote |-> Null]
    ELSE [title_match |-> IF reply[1].title_match \in {"yes", "no"}
                          THEN reply[1].title_match ELSE "unclear",
          wrote |-> IF reply[1].wrote \in {"true", "false"} THEN reply[1].wrote
                    ELSE Null]

\* llmWrittenClassifier, on a reply wrote_already
llmWrittenClassifier(reply) == IF reply \in {"true", "false"} THEN reply ELSE Null

\* llmPickCandidateFromReply, on a reply [decision, idx, title]; <<>> is null.
llmPickCandidateFromReply(cands, reply) ==
    LET r == reply[1]
        hits == IF reply = NoObject THEN {}
                ELSE {i \in 1..Len(cands) : cands[i].idx = r.idx}
        hit == cands[CHOOSE i \in hits : \A j \in hits : i <= j]
    IN IF cands = <<>> \/ reply = NoObject THEN <<>>
       ELSE IF r.decision = "pick" /\ hits # {}
       THEN <<[decision |-> "pick", id |-> hit.id, title |-> hit.title]>>
       ELSE IF r.decision = "none"
       THEN <<[decision |-> "none", id |-> Null, title |-> Null]>>
       ELSE IF r.decision = "free" /\ r.title # Null /\ r.title # ""
       THEN <<[decision |-> "free_title", id |-> Null, title |-> r.title]>>
       ELSE IF hits # {}
       THEN <<[decision |-> "pick", id |-> hit.id, title |-> hit.title]>>
       ELSE <<>>

\* x|0 for a value below 2^31 in size: the number it converts to (NaN gives
\* 0), truncated toward zero
Trunc(n, d) == IF n >= 0 THEN n \div d ELSE -((-n) \div d)
OrZero(v) ==
    CASE v.t = "num" -> Trunc(v.n, v.d)
      [] v.t = "bool" -> v.n
      [] v.t = "str" /\ v.s = "70" -> 70
      [] v.t = "str" /\ v.s = "150" -> 150
      [] OTHER -> 0

\* llmIntro, on a reply [semester, progress_percent] of JSON values
llmIntro(reply) ==
    LET p == IF reply = NoObject THEN [semester |-> JNull, progress_percent |-> JNull]
             ELSE reply[1]
    IN [semester |->
            IF p.semester.t # "null"
               /\ (~IsFiniteNum(p.semester) \/ p.semester.n < p.semester.d
                                            \/ p.semester.n > 20 * p.semester.d)
            THEN JNull ELSE p.semester,
        progress_percent |->
            IF p.progress_percent.t = "null" THEN JNull
            ELSE JNum(Clamp(0, 100, OrZero(p.progress_percent)))]

\* llmExtractFacts, on a reply that is a FactSet
llmExtractFacts(reply) ==
    LET f == IF reply = NoObject THEN EmptyFacts ELSE reply[1]
    IN [k \in DOMAIN f |->
           IF k = "difficulty_1_5" /\ IsFiniteNum(f[k])
           THEN IF f[k].n < f[k].d THEN JNum(1)
                ELSE IF f[k].n > 5 * f[k].d THEN JNum(5) ELSE f[k]
           ELSE IF k \in {"prep_weeks", "hours_per_week"}
                   /\ f[k].t # "null" /\ ~IsFiniteNum(f[k])
                THEN JNull
                ELSE f[k]]

\* llmPickPhase2IdentifyQuestion: the question of the reply, or the fixed one.
llmPickPhase2IdentifyQuestion(reply) ==
    IF reply = NoJSON \/ reply = "" THEN IdentifyFallback ELSE reply

\* String(q).trim(), on the replies that occur
trim(q) == IF q = " " THEN "" ELSE q

\* llmPickPhaseQuestion and llmNextTLQuestion: the trimmed question of the
\* reply, or a random one of the pool; the set of the questions the call can
\* return.
llmPickPhaseQuestion(pool, askedLog, reply) ==
    IF reply = NoJSON \/ reply = "" THEN pickRandomFromPool(pool, askedLog)
    ELSE {trim(reply)}

llmNextTLQuestion(phase3Pool, askedLog, reply) ==
    IF reply = NoJSON \/ reply = "" THEN pickRandomFromPool(phase3Pool, askedLog)
    ELSE {trim(reply)}

(***************************************************************************)
(* POST /api/retrieve: the outcomes of one turn.  An outcome is the        *)
(* session object in memory when the handler returned or threw, the        *)
(* knowledge store, and the kind of the error thrown ("none" for none).    *)
(***************************************************************************)
Out(mem, ks, err, path) == [mem |-> mem, ks |-> ks, err |-> err, path |-> path]

\* An oracle call that throws with the session object as it is at the call.
Throws(mem, ks, P) == {Out(mem, ks, e, "throw") : e \in P.errs}

PushAsked(s, q) == [s EXCEPT !.asked_log = Append(@, q)]

AskIdentify_NoTurn(mem, ks, path, P) ==
    Throws(mem, ks, P)
    \cup {Out(PushAsked(mem, llmPickPhase2IdentifyQuestion(reply)), ks, "none", path)
          : reply \in P.questions}

\* await llmPickPhase2IdentifyQuestion; asked_log.push; addAssistantTurn
AskIdentify(mem, ks, path, P) ==
    Throws(mem, ks, P)
    \cup {Out(addAssistantTurn(PushAsked(mem, llmPickPhase2IdentifyQuestion(reply)),
                               <<llmPickPhase2IdentifyQuestion(reply)>>),
              ks, "none", path) : reply \in P.questions}

combinedQuestion(cat, id, title) ==
    <<"Nur zum Abgleich: Meintest du", cleanTitle(title)>>
    \o (IF getPrimaryInstructor(cat, id) # Null
        THEN <<"bei Dozent:in", getPrimaryInstructor(cat, id)>> ELSE <<>>)
    \o <<"und hast du diese Klausur bereits geschrieben?">>

AbortTurn_ClearsArea(s, ks, P) ==
    AskIdentify([s EXCEPT !.current = DefaultCurrent, !.stage = "tl_search"],
                ks, "abort", P)

\* The abort branch
AbortTurn(s, ks, P) ==
    AskIdentify(
        [s EXCEPT !.current.tl_id = Null, !.current.tl_title = Null,
                  !.current.awaiting_written_confirm = FALSE,
                  !.current.awaiting_title_written_confirm = FALSE,
                  !.current.awaiting_tl_title_confirm = FALSE,
                  !.current.pending_tl_candidate = <<>>,
                  !.current.candidates = <<>>,
                  !.current.awaiting_candidate_choice = FALSE,
                  !.current.in_tl_rounds = 0,
                  !.current.tl_facts = EmptyFacts,
                  !.stage = "tl_search"],
        ks, "abort", P)

\* pending_tl_candidate := {id, title}; awaiting_title_written_confirm := true;
\* the candidate list is dropped; the combined question is asked.
ConfirmPicked(s, ks, id, title) ==
    {Out(addAssistantTurn(
             [s EXCEPT !.current.pending_tl_candidate = <<[id |-> id, title |-> title]>>,
                       !.current.awaiting_title_written_confirm = TRUE,
                       !.current.awaiting_candidate_choice = FALSE,
                       !.current.candidates = <<>>],
             combinedQuestion(ks.catalog, id, title)),
         ks, "none", "confirm_title")}

\* need_clarify: the numbered top three and awaiting_candidate_choice
top3(cand) ==
    [i \in 1..(IF Len(cand) < 3 THEN Len(cand) ELSE 3) |->
        [idx |-> i, id |-> cand[i].id, title |-> cand[i].title]]

ClarifyList(s, ks, pick, cand) ==
    {Out(addAssistantTurn(
             [s EXCEPT !.current.candidates = top3(cand),
                       !.current.awaiting_candidate_choice = TRUE],
             <<pick.clarify_question, "Zur Orientierung:">>
             \o [i \in 1..Len(top3(cand)) |-> top3(cand)[i].id]),
         ks, "none", "clarify")}

\* 1) an open candidate choice
CandidateChoiceTurn(s, ks, P) ==
    Throws(s, ks, P)
    \cup UNION {
        LET decision == llmPickCandidateFromReply(s.current.candidates, reply)
        IN IF decision = <<>>
           THEN {Out(addAssistantTurn(s, MsgRemind), ks, "none", "remind")}
           ELSE IF decision[1].decision = "pick"
           THEN ConfirmPicked(s, ks, decision[1].id, decision[1].title)
           ELSE IF decision[1].decision = "none"
           THEN AskIdentify([s EXCEPT !.current.awaiting_candidate_choice = FALSE,
                                      !.current.candidates = <<>>],
                            ks, "choice_none", P)
           ELSE Throws(s, ks, P)
                \cup UNION {
                    LET cand == candidates(decision[1].title, 10)
                        pick == llmResolveTL(rr, cand)
                    IN IF pick.match_id # Null /\ pick.confidence >= 60
                       THEN ConfirmPicked(s, ks, pick.match_id, pick.match_title)
                       ELSE IF pick.need_clarify /\ pick.clarify_question # Null
                       THEN ClarifyList(s, ks, pick, cand)
                       ELSE AskIdentify(s, ks, "choice_free", P)
                    : rr \in P.resolve}
        : reply \in P.picks}

\* Entering in_tl on a resolved mention: the five assignments, then the
\* first question of phase 3.
EnterInTl_KeepFacts(s, id, title) ==
    [s EXCEPT !.stage = "in_tl",
              !.current.tl_id = id, !.current.tl_title = title,
              !.current.awaiting_written_confirm = FALSE,
              !.current.in_tl_rounds = 0]

EnterInTl(s, id, title) ==
    [s EXCEPT !.stage = "in_tl",
              !.current.tl_id = id, !.current.tl_title = title,
              !.current.awaiting_written_confirm = FALSE,
              !.current.in_tl_rounds = 0,
              !.current.tl_facts = EmptyFacts]

\* Entering in_tl on the confirmed pending candidate
ConfirmEnterInTl(s) ==
    [s EXCEPT !.current.tl_id = s.current.pending_tl_candidate[1].id,
              !.current.tl_title = s.current.pending_tl_candidate[1].title,
              !.current.pending_tl_candidate = <<>>,
              !.current.awaiting_title_written_confirm = FALSE,
              !.stage = "in_tl",
              !.current.awaiting_written_confirm = FALSE,
              !.current.last_confirm_tl = s.current.pending_tl_candidate[1].id,
              !.current.in_tl_rounds = 0,
              !.current.tl_facts = EmptyFacts]

\* await llmNextTLQuestion; asked_log.push(q); "Lass uns über ... sprechen. q"
FirstTLQuestion(e, ks, P) ==
    Throws(e, ks, P)
    \cup {Out(addAssistantTurn(PushAsked(e, q),
                 <<"Lass uns über", cleanTitle(e.current.tl_title), "sprechen.", q>>),
              ks, "none", "enter_in_tl")
          : q \in UNION {llmNextTLQuestion(Phase3Pool, e.asked_log, reply)
                         : reply \in P.questions}}

\* if (last_confirm_tl && !declinedWritten.includes(last_confirm_tl)) push
NoteDeclined(c) ==
    IF c.last_confirm_tl # Null /\ c.last_confirm_tl \notin Range(c.declinedWritten)
    THEN [c EXCEPT !.declinedWritten = Append(@, c.last_confirm_tl)]
    ELSE c

\* 2) the combined confirmation of title and "written"
CombinedConfirmTurn(s, ks, P) ==
    Throws(s, ks, P)
    \cup UNION {
        LET c == llmCombinedTitleWrittenClassifier(reply)
        IN IF c.title_match = "yes" /\ c.wrote = "true"
           THEN FirstTLQuestion(ConfirmEnterInTl(s), ks, P)
           ELSE IF c.title_match = "yes" /\ c.wrote = "false"
           THEN AskIdentify(
                    [s EXCEPT !.current = [NoteDeclined(@) EXCEPT
                                  !.tl_id = Null, !.tl_title = Null,
                                  !.awaiting_written_confirm = FALSE,
                                  !.awaiting_title_written_confirm = FALSE,
                                  !.last_confirm_tl = Null,
                                  !.pending_tl_candidate = <<>>,
                                  !.in_tl_rounds = 0],
                              !.stage = "tl_search"],
                    ks, "confirm_not_written", P)
           ELSE IF c.title_match = "yes"
           THEN {Out(addAssistantTurn(
                         [s EXCEPT !.current.awaiting_written_confirm = TRUE,
                                   !.current.awaiting_title_written_confirm = FALSE],
                         MsgReprompt),
                     ks, "none", "confirm_reprompt")}
           ELSE IF c.title_match = "no"
           THEN AskIdentify(
                    [s EXCEPT !.current.pending_tl_candidate = <<>>,
                              !.current.awaiting_title_written_confirm = FALSE],
                    ks, "confirm_no", P)
           ELSE {Out(addAssistantTurn(s,
                         combinedQuestion(ks.catalog,
                                          s.current.pending_tl_candidate[1].id,
                                          s.current.pending_tl_candidate[1].title)),
                     ks, "none", "confirm_unclear")}
        : reply \in P.combined}

\* `q || pickRandomFromPool(pool, asked_log)`: the questions it can yield
OrPool(q, pool, askedLog) ==
    IF q # "" THEN {q} ELSE pickRandomFromPool(pool, askedLog)

PhaseQuestions(pool, askedLog, P) ==
    UNION {UNION {OrPool(q, pool, askedLog)
                  : q \in llmPickPhaseQuestion(pool, askedLog, reply)}
           : reply \in P.questions}

\* A) await_semester_progress
SemesterTurn(s, ks, P) ==
    Throws(s, ks, P)
    \cup UNION {
        LET s1 == [s EXCEPT !.general = llmIntro(reply),
                            !.stage = "general",
                            !.counters.general_q = 0,
                            !.current.awaiting_candidate_choice = FALSE,
                            !.current.candidates = <<>>]
        IN Throws(s1, ks, P)
           \cup {Out(addAssistantTurn(PushAsked(s1, q), <<q>>), ks, "none", "intro")
                 : q \in PhaseQuestions(Phase1Pool, s1.asked_log, P)}
        : reply \in P.intros}

\* if (det.found_area) s.current.area = det.found_area (lower-cased)
NoteArea(s, det) ==
    IF det.found_area # Null /\ det.found_area # ""
    THEN [s EXCEPT !.current.area = toLowerCase(det.found_area)]
    ELSE s

\* resolveMentions: the lists `resolved` can be, over the replies of the oracle
RECURSIVE resolveMentions(_, _)
resolveMentions(mentions, P) ==
    IF mentions = <<>> THEN {<<>>}
    ELSE {(IF llmResolveTL(rr, candidates(Head(mentions), 10)).match_id # Null
              /\ llmResolveTL(rr, candidates(Head(mentions), 10)).confidence >= 60
           THEN <<[id |-> llmResolveTL(rr, candidates(Head(mentions), 10)).match_id,
                   title |-> llmResolveTL(rr, candidates(Head(mentions), 10)).match_title,
                   confidence |-> llmResolveTL(rr, candidates(Head(mentions), 10)).confidence]>>
           ELSE <<>>) \o rest
          : rr \in P.resolve, rest \in resolveMentions(Tail(mentions), P)}

WroteHigh_Above(det) == IsFiniteNum(det.wrote_prob) /\ det.wrote_prob.n > 85

\* det.wrote_prob != null && det.wrote_prob >= 0.85
WroteHigh(det) == IsFiniteNum(det.wrote_prob) /\ det.wrote_prob.n >= 85

\* A resolved course: direct entry into in_tl, or the combined question.
\* general moves to tl_search before it asks; tl_search is there already.
OnResolved(s, ks, det, id, title, P) ==
    IF WroteHigh(det)
    THEN FirstTLQuestion(EnterInTl(s, id, title), ks, P)
    ELSE {Out(addAssistantTurn(
                  [s EXCEPT !.stage = "tl_search",
                            !.current.pending_tl_candidate = <<[id |-> id, title |-> title]>>,
                            !.current.awaiting_title_written_confirm = TRUE],
                  combinedQuestion(ks.catalog, id, title)),
              ks, "none", "confirm_title")}

GeneralMore_ThreeQuestions(s, ks, P) ==
    Throws(s, ks, P)
    \cup {Out(addAssistantTurn(
                  [PushAsked(s, q) EXCEPT
                      !.counters.general_q = @ + 1,
                      !.stage = IF s.counters.general_q + 1 >= 3 THEN "tl_search" ELSE @],
                  <<q>>),
              ks, "none", "general_more")
          : q \in PhaseQuestions(Phase1Pool, s.asked_log, P)}

\* general: no course resolved, one more general question
GeneralMore(s, ks, P) ==
    Throws(s, ks, P)
    \cup {Out(addAssistantTurn(
                  [PushAsked(s, q) EXCEPT
                      !.counters.general_q = @ + 1,
                      !.stage = IF s.counters.general_q + 1 >= 2 THEN "tl_search" ELSE @],
                  <<q>>),
              ks, "none", "general_more")
          : q \in PhaseQuestions(Phase1Pool, s.asked_log, P)}

\* general: found_tl_text, or a list of exactly one mention
GeneralSingle(s, ks, det, P) ==
    IF det.found_tl_text # Null \/ Len(det.found_tl_list) = 1
    THEN LET mention == IF det.found_tl_text # Null THEN det.found_tl_text
                        ELSE det.found_tl_list[1]
         IN Throws(s, ks, P)
            \cup UNION {
                LET pick == llmResolveTL(rr, candidates(mention, 10))
                IN IF pick.match_id # Null /\ pick.confidence >= 60
                   THEN OnResolved(s, ks, det, pick.match_id, pick.match_title, P)
                   ELSE GeneralMore(s, ks, P)
                : rr \in P.resolve}
    ELSE GeneralMore(s, ks, P)

\* B) general
GeneralTurn(s, ks, P) ==
    Throws(s, ks, P)
    \cup UNION {
        LET det == llmDetectEntities(dr)
            s1 == NoteArea(s, det)
        IN IF Len(det.found_tl_list) > 1
           THEN Throws(s1, ks, P)
                \cup UNION {
                    IF resolved # <<>>
                    THEN OnResolved(s1, ks, det,
                             pickLeastKnownOfResolved(ks.catalog, resolved).id,
                             pickLeastKnownOfResolved(ks.catalog, resolved).title, P)
                    ELSE GeneralSingle(s1, ks, det, P)
                    : resolved \in resolveMentions(det.found_tl_list, P)}
           ELSE GeneralSingle(s1, ks, det, P)
        : dr \in P.detects}

\* tl_search: one mention or none
SearchSingle(s, ks, det, P) ==
    LET mention == IF det.found_tl_text # Null THEN det.found_tl_text
                   ELSE IF det.found_tl_list # <<>> THEN det.found_tl_list[1]
                   ELSE Null
        cand == candidates(mention, 10)
    IN IF mention = Null \/ mention = ""
       THEN AskIdentify(s, ks, "search_no_mention", P)
       ELSE Throws(s, ks, P)
            \cup UNION {
                LET pick == llmResolveTL(rr, cand)
                IN IF pick.match_id # Null /\ pick.confidence >= 60
                   THEN OnResolved(s, ks, det, pick.match_id, pick.match_title, P)
                   ELSE IF pick.need_clarify /\ pick.clarify_question # Null
                   THEN ClarifyList(s, ks, pick, cand)
                   ELSE AskIdentify(s, ks, "search_unresolved", P)
                : rr \in P.resolve}

\* C) tl_search
SearchTurn(s, ks, P) ==
    Throws(s, ks, P)
    \cup UNION {
        LET det == llmDetectEntities(dr)
            s1 == NoteArea(s, det)
        IN IF det.temporal_hint = "future"
           THEN AskIdentify(s1, ks, "search_future", P)
           ELSE IF Len(det.found_tl_list) > 1
           THEN Throws(s1, ks, P)
                \cup UNION {
                    IF resolved # <<>>
                    THEN OnResolved(s1, ks, det,
                             pickLeastKnownOfResolved(ks.catalog, resolved).id,
                             pickLeastKnownOfResolved(ks.catalog, resolved).title, P)
                    ELSE SearchSingle(s1, ks, det, P)
                    : resolved \in resolveMentions(det.found_tl_list, P)}
           ELSE SearchSingle(s1, ks, det, P)
        : dr \in P.detects}

MAX_IN_TL_ROUNDS == 6

\* in_tl: the next question; a repetition is replaced by a pool question
InTlNext(s, ks, P) ==
    Throws(s, ks, P)
    \cup {Out(addAssistantTurn(PushAsked(s, useQ), <<useQ>>), ks, "none", "in_tl_next")
          : useQ \in UNION {
                UNION {UNION {IF qFinal \in Range(s.asked_log)
                              THEN pickRandomFromPool(Phase3Pool, s.asked_log)
                              ELSE {qFinal}
                              : qFinal \in OrPool(qNext, Phase3Pool, s.asked_log)}
                       : qNext \in llmNextTLQuestion(Phase3Pool, s.asked_log, reply)}
                : reply \in P.questions}}

\* in_tl: extract the facts of the answer, spread them over tl_facts, save
InTlFacts(s, sid, ks, P) ==
    IF s.current.tl_title # Null /\ s.current.tl_title # ""
    THEN Throws(s, ks, P)
         \cup UNION {
             LET s1 == [s EXCEPT !.current.tl_facts = Spread(@, llmExtractFacts(fr))]
             IN InTlNext(s1,
                         saveNewKnowledge(ks, s1.current.tl_id, sid,
                                          cleanTitle(s1.current.tl_title),
                                          s1.current.tl_facts).ks,
                         P)
             : fr \in P.facts}
    ELSE InTlNext(s, ks, P)

\* in_tl: the pending "already written?" question
InTlWritten(s, ks, P) ==
    Throws(s, ks, P)
    \cup UNION {
        LET wrote == llmWrittenClassifier(reply)
        IN IF wrote = "true"
           THEN LET s1 == [s EXCEPT !.current.awaiting_written_confirm = FALSE]
                IN Throws(s1, ks, P)
                   \cup {Out(addAssistantTurn(PushAsked(s1, q), <<q>>),
                             ks, "none", "in_tl_written")
                         : q \in UNION {llmNextTLQuestion(Phase3Pool, s1.asked_log, qr)
                                        : qr \in P.questions}}
           ELSE IF wrote = "false"
           THEN AskIdentify(
                    [s EXCEPT !.current = [NoteDeclined(@) EXCEPT
                                  !.tl_id = Null, !.tl_title = Null,
                                  !.awaiting_written_confirm = FALSE,
                                  !.last_confirm_tl = Null,
                                  !.in_tl_rounds = 0],
                              !.stage = "tl_search"],
                    ks, "in_tl_not_written", P)
           ELSE {Out(addAssistantTurn(s, MsgReprompt), ks, "none", "in_tl_reprompt")}
        : reply \in P.written}

\* The round budget: the turn whose count exceeds MAX_IN_TL_ROUNDS leaves in_tl
InTlTurn_AtBudget(s, sid, ks, P) ==
    LET s1 == [s EXCEPT !.current.in_tl_rounds = @ + 1]
        s2 == [s1 EXCEPT !.current.in_tl_rounds = 0, !.stage = "wrap_up"]
    IN IF s1.current.in_tl_rounds >= MAX_IN_TL_ROUNDS
       THEN Throws(s2, ks, P)
            \cup {Out(addAssistantTurn(PushAsked(s2, q), <<q>>), ks, "none", "round_budget")
                  : q \in PhaseQuestions(Phase4Pool, s2.asked_log, P)}
       ELSE IF s1.current.awaiting_written_confirm
       THEN InTlWritten(s1, ks, P)
       ELSE InTlFacts(s1, sid, ks, P)

\* D) in_tl
InTlTurn(s, sid, ks, P) ==
    LET s1 == [s EXCEPT !.current.in_tl_rounds = @ + 1]
        s2 == [s1 EXCEPT !.current.in_tl_rounds = 0, !.stage = "wrap_up"]
    IN IF s1.current.in_tl_rounds > MAX_IN_TL_ROUNDS
       THEN Throws(s2, ks, P)
            \cup {Out(addAssistantTurn(PushAsked(s2, q), <<q>>), ks, "none", "round_budget")
                  : q \in PhaseQuestions(Phase4Pool, s2.asked_log, P)}
       ELSE IF s1.current.awaiting_written_confirm
       THEN InTlWritten(s1, ks, P)
       ELSE InTlFacts(s1, sid, ks, P)

\* E) wrap_up
WrapUpTurn(s, ks, P) ==
    Throws(s, ks, P)
    \cup {Out(addAssistantTurn([PushAsked(s, q) EXCEPT !.stage = "tl_search"], <<q>>),
              ks, "none", "wrap_up")
          : q \in PhaseQuestions(Phase4Pool, s.asked_log, P)}

\* The try block after the intent is known to be "continue"
ContinueTurn(s, sid, ks, P) ==
    IF s.current.awaiting_candidate_choice /\ s.current.candidates # <<>>
    THEN CandidateChoiceTurn(s, ks, P)
    ELSE IF s.current.awaiting_title_written_confirm
            /\ s.current.pending_tl_candidate # <<>>
    THEN CombinedConfirmTurn(s, ks, P)
    ELSE CASE s.stage = "await_semester_progress" -> SemesterTurn(s, ks, P)
           [] s.stage = "general" -> GeneralTurn(s, ks, P)
           [] s.stage = "tl_search" -> SearchTurn(s, ks, P)
           [] s.stage = "in_tl" -> InTlTurn(s, sid, ks, P)
           [] s.stage = "wrap_up" -> WrapUpTurn(s, ks, P)
           [] OTHER -> {Out(addAssistantTurn(s, MsgFallbackTitle), ks, "none", "fallback")}

\* The try block: the intent first
TryTurn(s, sid, ks, P) ==
    Throws(s, ks, P)
    \cup UNION {IF llmControlIntent(reply) = "abort"
                THEN {[o EXCEPT !.path = IF o.err = "none" THEN "abort" ELSE "abort_throw"]
                      : o \in AbortTurn(s, ks, P)}
                ELSE ContinueTurn(s, sid, ks, P)
                : reply \in P.intents}

\* The catch block, on the session as the store on disk holds it
CatchTurn_SilentRate(disk, err) ==
    LET s2 == sanitizeSessionShape(disk)
    IN IF err = "quota"
       THEN addAssistantTurn(
                [s2 EXCEPT !.flags = [llm_disabled |-> TRUE,
                                      llm_disabled_reason |-> MsgQuota]],
                MsgQuota)
       ELSE IF err = "rate" THEN s2
       ELSE addAssistantTurn(s2, MsgError)

CatchTurn_QuotaKeepsFlag(disk, err) ==
    LET s2 == sanitizeSessionShape(disk)
    IN IF err = "quota" THEN addAssistantTurn(s2, MsgQuota)
       ELSE IF err = "rate" THEN addAssistantTurn(s2, MsgRate)
       ELSE addAssistantTurn(s2, MsgError)

CatchTurn(disk, err) ==
    LET s2 == sanitizeSessionShape(disk)
    IN IF err = "quota"
       THEN addAssistantTurn(
                [s2 EXCEPT !.flags = [llm_disabled |-> TRUE,
                                      llm_disabled_reason |-> MsgQuota]],
                MsgQuota)
       ELSE IF err = "rate" THEN addAssistantTurn(s2, MsgRate)
       ELSE addAssistantTurn(s2, MsgError)

(***************************************************************************)
(* The replies of the oracle and the texts of the user                     *)
(***************************************************************************)
Detect(text, list, hint, prob) ==
    [found_area |-> Null, found_tl_text |-> text, found_tl_list |-> list,
     temporal_hint |-> hint, wrote_prob |-> prob]

Resolve(id, title, conf, clarify, question) ==
    [match_id |-> id, match_title |-> title, confidence |-> conf,
     need_clarify |-> clarify, clarify_question |-> question]

Pick(decision, idx, title) == [decision |-> decision, idx |-> idx, title |-> title]

OracleQuestion == "Wie hast du dich auf die Klausur vorbereitet?"

\* Every kind of reply and every way an oracle call fails
Profile ==
    [errs |-> {"quota", "rate", "other"},
     intents |-> {"continue", "abort", NoJSON},
     questions |-> {OracleQuestion, NoJSON},
     intros |-> {NoObject,
                 Object([semester |-> JNum(25), progress_percent |-> JNum(150)])},
     detects |-> {NoObject,
                  Object(Detect(Null, <<>>, "future", JNull)),
                  Object(Detect("Mathe", <<>>, "past", JNum(90))),
                  Object([Detect(Null, <<"Statistik">>, "", JNull) EXCEPT
                             !.found_area = "Statistik"]),
                  Object(Detect(Null, <<"Mathe", "Statistik">>, "past", JNum(70)))},
     resolve |-> {NoObject,
                  Object(Resolve("T-1", TitleMathe, JNum(90), FALSE, Null)),
                  Object(Resolve("T-2", Null, JNum(150), FALSE, Null)),
                  Object(Resolve("T-1", TitleMathe, JNum(50), TRUE,
                                 "Welche Klausur meinst du?"))},
     combined |-> {NoObject,
                   Object([title_match |-> "yes", wrote |-> "true"]),
                   Object([title_match |-> "yes", wrote |-> "false"]),
                   Object([title_match |-> "yes", wrote |-> "vielleicht"]),
                   Object([title_match |-> "no", wrote |-> Null])},
     written |-> {"true", "false", NoJSON},
     picks |-> {NoObject, Object(Pick("pick", 1, Null)), Object(Pick("none", 0, Null)),
                Object(Pick("free", 0, "Statistik")), Object(Pick("other", 2, Null))},
     facts |-> {Object(FactsExamStrat), Object(FactsRepeated)},
     users |-> {"Antwort"},
     maxTranscript |-> MaxTranscript, maxSaves |-> MaxTurnSaves,
     boundFaults |-> FALSE]

\* One course, sure or unsure of having been written, and an oracle that
\* answers in form; at most MaxFaults turns are aborted or fail.
LongProfile ==
    [errs |-> {"other"},
     intents |-> {"continue", "abort"},
     questions |-> {OracleQuestion},
     intros |-> {Object([semester |-> JNum(5), progress_percent |-> JNum(70)])},
     detects |-> {Object(Detect("Mathe", <<>>, "past", JNum(90))),
                  Object(Detect("Mathe", <<>>, "past", JNull))},
     resolve |-> {Object(Resolve("T-1", TitleMathe, JNum(90), FALSE, Null))},
     combined |-> {Object([title_match |-> "yes", wrote |-> "true"]),
                   Object([title_match |-> "yes", wrote |-> Null])},
     written |-> {"true"},
     picks |-> {NoObject},
     facts |-> {Object(FactsExamStrat)},
     users |-> {"Antwort"},
     maxTranscript |-> MaxLongTranscript, maxSaves |-> MaxLongTranscript,
     boundFaults |-> TRUE]

(***************************************************************************)
(* The endpoints                                                           *)
(***************************************************************************)
StoreWith(store, sid, s) ==
    [x \in DOMAIN store \cup {sid} |-> IF x = sid THEN s ELSE store[x]]

\* What upsertSession finds or creates for sid
PreStored(sid) == upsertSession(sessions, sid)[sid]

\* POST /api/interview/start
Start(sid, force) ==
    /\ LET s == sanitizeSessionShape(upsertSession(sessions, sid)[sid])
       IN sessions' = StoreWith(sessions, sid,
                          ensureIntroGreeting(IF force THEN ResetFields(s) ELSE s))
    /\ last' = [LastRec("start", sid) EXCEPT
                   !.path = IF force THEN "force" ELSE "no_force",
                   !.streak = IF force \/ last.sid # sid THEN -1 ELSE last.streak,
                   !.faults = last.faults]
    /\ UNCHANGED <<catalog, kgJsonld, kgTurtle, evaluations, inflight, call, ret>>

\* POST /api/interview/reset
Reset(sid) ==
    /\ sessions' = StoreWith(sessions, sid,
           ensureIntroGreeting(
               sanitizeSessionShape(ResetFields(upsertSession(sessions, sid)[sid]))))
    /\ last' = [LastRec("reset", sid) EXCEPT !.faults = last.faults]
    /\ UNCHANGED <<catalog, kgJsonld, kgTurtle, evaluations, inflight, call, ret>>

\* The consecutive turns handled in in_tl since the entry, -1 once an abort,
\* an error or a reset has interrupted them
NextStreak(pre, post, sid, o) ==
    IF o.err = "none" /\ o.path = "enter_in_tl" THEN 0
    ELSE IF /\ last.sid = sid /\ last.streak >= 0
            /\ pre.stage = "in_tl" /\ o.err = "none" /\ o.path # "abort"
         THEN last.streak + 1
         ELSE -1

Retrieve_CatchInMemory(sid, P) ==
    \E userText \in P.users :
        LET store == upsertSession(sessions, sid)
            disk == pushTranscript(sanitizeSessionShape(store[sid]), "user", <<userText>>)
            ks == KS(catalog, kgJsonld, kgTurtle)
            outcomes ==
                IF disk.flags.llm_disabled
                THEN {Out(addAssistantTurn(disk,
                              IF disk.flags.llm_disabled_reason # <<>>
                              THEN disk.flags.llm_disabled_reason
                              ELSE MsgDisabledDefault),
                          ks, "none", "llm_disabled")}
                ELSE TryTurn(disk, sid, ks, P)
        IN /\ Len(store[sid].transcript) + 2 <= P.maxTranscript
           /\ \E o \in outcomes :
                LET post == IF o.err = "none" THEN o.mem ELSE CatchTurn(o.mem, o.err)
                    fault == P.boundFaults /\ (o.err # "none" \/ o.path = "abort")
                IN /\ Len(o.ks.turtle) <= P.maxSaves
                   /\ fault => last.faults < MaxFaults
                   /\ sessions' = StoreWith(store, sid, post)
                   /\ catalog' = o.ks.catalog
                   /\ kgJsonld' = o.ks.jsonld
                   /\ kgTurtle' = o.ks.turtle
                   /\ UNCHANGED <<evaluations, inflight, call, ret>>
                   /\ last' = [LastRec("retrieve", sid) EXCEPT
                                  !.err = o.err, !.path = o.path, !.user = userText,
                                  !.mem_stage = o.mem.stage,
                                  !.streak = NextStreak(store[sid], post, sid, o),
                                  !.faults = last.faults + (IF fault THEN 1 ELSE 0)]

\* POST /api/retrieve, under the replies of profile P
RetrieveTurn(sid, P) ==
    \E userText \in P.users :
        LET store == upsertSession(sessions, sid)
            disk == pushTranscript(sanitizeSessionShape(store[sid]), "user", <<userText>>)
            ks == KS(catalog, kgJsonld, kgTurtle)
            outcomes ==
                IF disk.flags.llm_disabled
                THEN {Out(addAssistantTurn(disk,
                              IF disk.flags.llm_disabled_reason # <<>>
                              THEN disk.flags.llm_disabled_reason
                              ELSE MsgDisabledDefault),
                          ks, "none", "llm_disabled")}
                ELSE TryTurn(disk, sid, ks, P)
        IN /\ Len(store[sid].transcript) + 2 <= P.maxTranscript
           /\ \E o \in outcomes :
                LET post == IF o.err = "none" THEN o.mem ELSE CatchTurn(disk, o.err)
                    fault == P.boundFaults /\ (o.err # "none" \/ o.path = "abort")
                IN /\ Len(o.ks.turtle) <= P.maxSaves
                   /\ fault => last.faults < MaxFaults
                   /\ sessions' = StoreWith(store, sid, post)
                   /\ catalog' = o.ks.catalog
                   /\ kgJsonld' = o.ks.jsonld
                   /\ kgTurtle' = o.ks.turtle
                   /\ UNCHANGED <<evaluations, inflight>>
                   /\ last' = [LastRec("retrieve", sid) EXCEPT
                                  !.err = o.err, !.path = o.path, !.user = userText,
                                  !.mem_stage = o.mem.stage,
                                  !.streak = NextStreak(store[sid], post, sid, o),
                                  !.faults = last.faults + (IF fault THEN 1 ELSE 0)]

\* POST /api/retrieve
Retrieve(sid, P) == RetrieveTurn(sid, P) /\ UNCHANGED <<call, ret>>

Init ==
    /\ sessions = EmptyStore
    /\ catalog \in {InitialCatalog, <<>>}
    /\ kgJsonld = <<>>
    /\ kgTurtle = <<>>
    /\ evaluations = <<>>
    /\ inflight = <<>>
    /\ call = NoCall
    /\ ret = NoCall
    /\ last = LastRec("init", Null)

Next ==
    \/ \E force \in BOOLEAN : Start("s1", force)
    \/ Reset("s1")
    \/ Retrieve("s1", Profile)

Spec == Init /\ [][Next]_vars

\* One long conversation of one session
InitLong ==
    /\ sessions = EmptyStore
    /\ catalog = InitialCatalog
    /\ kgJsonld = <<>>
    /\ kgTurtle = <<>>
    /\ evaluations = <<>>
    /\ inflight = <<>>
    /\ call = NoCall
    /\ ret = NoCall
    /\ last = LastRec("init", Null)

NextLong == Retrieve("s1", LongProfile)

SpecLong == InitLong /\ [][NextLong]_vars

\* Replies to llmExtractFacts whose numbers are strings, fractions or out of
\* range
FactsWrongTypes ==
    [k \in {"difficulty_1_5", "prep_weeks", "hours_per_week"} |->
        CASE k = "difficulty_1_5" -> JStr("schwer")
          [] k = "prep_weeks" -> JStr("drei")
          [] OTHER -> JNum(10)]
FactsHalves ==
    [k \in {"difficulty_1_5", "prep_weeks"} |->
        IF k = "difficulty_1_5" THEN JFrac(7, 2) ELSE JFrac(3, 2)]
FactsTooHard == [k \in {"difficulty_1_5"} |-> JNum(9)]
ExtractReplies == FactInputs \cup {FactsWrongTypes, FactsHalves, FactsTooHard}

\* One course that was written, and answers that yield different facts
FactsProfile ==
    [LongProfile EXCEPT !.intents = {"continue"},
                        !.detects = {Object(Detect("Mathe", <<>>, "past", JNum(90)))},
                        !.facts = {Object(f) : f \in ExtractReplies},
                        !.maxTranscript = MaxFactsTranscript,
                        !.maxSaves = MaxFactsTranscript,
                        !.boundFaults = FALSE]

FactsNext == Retrieve("s1", FactsProfile)

SpecFacts == InitLong /\ [][FactsNext]_vars

(***************************************************************************)
(* Turns with the replies of detect_entities and resolve_tl on record      *)
(***************************************************************************)
\* No mention; one mention with a high, a low and no wrote_prob, as text and
\* as a list of one; one mention of the future.  Resolutions above, at and
\* below the confidence of 0.6, and none.
ResolveProfile ==
    [LongProfile EXCEPT
        !.detects = {NoObject,
                     Object(Detect("Mathe", <<>>, "past", JNum(85))),
                     Object(Detect("Mathe", <<>>, "past", JNum(84))),
                     Object(Detect(Null, <<"Statistik">>, "", JNull)),
                     Object(Detect("Mathe", <<>>, "future", JNum(90)))},
        !.resolve = {NoObject,
                     Object(Resolve("T-1", TitleMathe, JNum(90), FALSE, Null)),
                     Object(Resolve("T-2", Null, JNum(60), FALSE, Null)),
                     Object(Resolve("T-1", TitleMathe, JNum(59), TRUE,
                                    "Welche Klausur meinst du?"))},
        !.combined = {Object([title_match |-> "no", wrote |-> Null])},
        !.maxTranscript = MaxResolveTranscript,
        !.maxSaves = MaxResolveTranscript]

\* A turn in which detect_entities answers dr and resolve_tl answers rr
ResolveTurn(sid, dr, rr) ==
    /\ RetrieveTurn(sid, [ResolveProfile EXCEPT !.detects = {dr}, !.resolve = {rr}])
    /\ call' = [fn |-> "oracle", det |-> dr, res |-> rr]
    /\ ret' = ret

ResolveNext ==
    \E dr \in ResolveProfile.detects, rr \in ResolveProfile.resolve :
        ResolveTurn("s1", dr, rr)

SpecResolve == InitLong /\ [][ResolveNext]_vars

(***************************************************************************)
(* Turns in which no reply of the oracle can be parsed                     *)
(***************************************************************************)
\* Every call answers with HTTP 200 and a content that is no JSON
DegradedProfile ==
    [errs |-> {},
     intents |-> {NoJSON}, questions |-> {NoJSON}, intros |-> {NoObject},
     detects |-> {NoObject}, resolve |-> {NoObject}, combined |-> {NoObject},
     written |-> {NoJSON}, picks |-> {NoObject}, facts |-> {NoObject},
     users |-> {"Antwort"},
     maxTranscript |-> MaxDegradedTranscript, maxSaves |-> MaxDegradedTranscript,
     boundFaults |-> FALSE]

\* Replies in form that lead to each stage of the conversation
ParsedProfile ==
    [LongProfile EXCEPT
        !.errs = {},
        !.intents = {"continue"},
        !.detects = {Object(Detect("Mathe", <<>>, "past", JNum(90))),
                     Object(Detect("Mathe", <<>>, "past", JNum(70)))},
        !.resolve = {Object(Resolve("T-1", TitleMathe, JNum(90), FALSE, Null)),
                     Object(Resolve("T-1", TitleMathe, JNum(50), TRUE,
                                    "Welche Klausur meinst du?"))},
        !.combined = {Object([title_match |-> "yes", wrote |-> "true"])},
        !.users = {"Antwort"},
        !.maxTranscript = MaxDegradedTranscript,
        !.maxSaves = MaxDegradedTranscript]

\* A turn with unparseable replies; n counts such turns in a row, from the
\* one handled in await_semester_progress on
DegradedTurn(sid) ==
    /\ RetrieveTurn(sid, DegradedProfile)
    /\ call' = [fn |-> "oracle", degraded |-> TRUE,
                n |-> IF sid \in DOMAIN sessions
                         /\ sessions[sid].stage = "await_semester_progress" THEN 1
                      ELSE IF call.fn = "oracle" /\ call.degraded /\ call.n > 0
                              /\ last.op = "retrieve"
                      THEN call.n + 1 ELSE 0]
    /\ ret' = ret

\* A turn with replies in form
ParsedTurn(sid) ==
    /\ RetrieveTurn(sid, ParsedProfile)
    /\ call' = [fn |-> "oracle", degraded |-> FALSE, n |-> 0]
    /\ ret' = ret

DegradedNext ==
    \/ DegradedTurn("s1")
    \/ ParsedTurn("s1")
    \/ Start("s1", TRUE)

SpecDegraded == InitLong /\ [][DegradedNext]_vars

(***************************************************************************)
(* Overlapping requests.  POST /api/retrieve is an async handler: it loads *)
(* the store, pushes the user entry and persists, and is then suspended at *)
(* its first oracle call while other requests are handled.  The object it  *)
(* persists at its end is the store it loaded at its beginning.  The rest  *)
(* of the handler writes the session store only in its last statement, so  *)
(* it is one step here.                                                    *)
(***************************************************************************)
Remove(sq, i) == SubSeq(sq, 1, i - 1) \o SubSeq(sq, i + 1, Len(sq))

\* Lines 1105-1122: up to the first await, or to the return of the
\* llm_disabled short-circuit
RetrieveBegin(sid, P) ==
    \E userText \in P.users :
        LET store == upsertSession(sessions, sid)
            s == pushTranscript(sanitizeSessionShape(store[sid]), "user", <<userText>>)
            loaded == StoreWith(store, sid, s)
        IN /\ Len(inflight) < MaxInflight
           /\ Len(store[sid].transcript) + 2 <= P.maxTranscript
           /\ IF s.flags.llm_disabled
              THEN /\ sessions' = StoreWith(store, sid,
                          addAssistantTurn(s, IF s.flags.llm_disabled_reason # <<>>
                                              THEN s.flags.llm_disabled_reason
                                              ELSE MsgDisabledDefault))
                   /\ UNCHANGED inflight
              ELSE /\ sessions' = loaded
                   /\ inflight' = Append(inflight, [sid |-> sid, store |-> loaded])
           /\ last' = [LastRec("retrieve_begin", sid) EXCEPT !.user = userText]
           /\ UNCHANGED <<catalog, kgJsonld, kgTurtle, evaluations, call, ret>>

\* Lines 1124-1719: the try block on the loaded store, or the catch block on
\* the store as it is on disk by then
RetrieveEnd(i, P) ==
    LET req == inflight[i]
        ks == KS(catalog, kgJsonld, kgTurtle)
        store2 == upsertSession(sessions, req.sid)
    IN \E o \in TryTurn(req.store[req.sid], req.sid, ks, P) :
        /\ Len(o.ks.turtle) <= P.maxSaves
        /\ sessions' = IF o.err = "none"
                       THEN StoreWith(req.store, req.sid, o.mem)
                       ELSE StoreWith(store2, req.sid, CatchTurn(store2[req.sid], o.err))
        /\ catalog' = o.ks.catalog
        /\ kgJsonld' = o.ks.jsonld
        /\ kgTurtle' = o.ks.turtle
        /\ inflight' = Remove(inflight, i)
        /\ last' = [LastRec("retrieve_end", req.sid) EXCEPT
                       !.err = o.err, !.path = o.path, !.mem_stage = o.mem.stage]
        /\ UNCHANGED <<evaluations, call, ret>>

\* Two clients that say different things, an oracle that answers in form
\* or fails
ConcProfile ==
    [LongProfile EXCEPT !.users = {"Antwort", "Nachtrag"},
                        !.errs = {"quota"},
                        !.intents = {"continue"},
                        !.detects = {Object(Detect("Mathe", <<>>, "past", JNum(90)))},
                        !.combined = {Object([title_match |-> "yes", wrote |-> "true"])},
                        !.maxTranscript = MaxConcTranscript,
                        !.maxSaves = MaxConcTranscript,
                        !.boundFaults = FALSE]

ConcNext ==
    \/ \E sid \in SessionIds : RetrieveBegin(sid, ConcProfile)
    \/ \E i \in 1..Len(inflight) : RetrieveEnd(i, ConcProfile)

SpecConc == InitLong /\ [][ConcNext]_vars

(***************************************************************************)
(* Evaluation and administration                                           *)
(***************************************************************************)
MsgEvalStart == <<"Evaluation gestartet.">>
MsgEvalDone == <<"Danke für dein Feedback!">>

\* Number(v) as <<finite, value>>, on the values a JSON body can carry and,
\* for strings, on the strings that occur.
Number(v) ==
    CASE v.t = "num" -> <<TRUE, v.n>>
      [] v.t = "null" -> <<TRUE, 0>>
      [] v.t = "bool" -> <<TRUE, v.n>>
      [] v.t = "str" /\ v.s = "" -> <<TRUE, 0>>
      [] v.t = "str" /\ v.s = "4" -> <<TRUE, 4>>
      [] OTHER -> <<FALSE, 0>>

\* Object.values(ratings).some(v => !Number.isFinite(n) || n < 1 || n > 5)
invalidRatings(ratings) ==
    \E k \in DOMAIN ratings :
        ~Number(ratings[k])[1] \/ Number(ratings[k])[2] < 1 \/ Number(ratings[k])[2] > 5

\* Object.entries(ratings).map(([id, value]) => ({id, value: Number(value)}))
answersOf(ratings) == [k \in DOMAIN ratings |-> Number(ratings[k])[2]]

\* collectSessionKnowledge with the filter on the session id left out
collectSessionKnowledge_AllSessions(cat, sessionId) ==
    LET RECURSIVE MergeAll(_)
        MergeAll(nk) == IF nk = <<>> THEN EmptyFacts
                        ELSE mergeFacts(MergeAll(SubSeq(nk, 1, Len(nk) - 1)),
                                        nk[Len(nk)].facts)
    IN [i \in 1..Len(cat) |->
           [tlId |-> IF cat[i].teilleistung_id # Null THEN cat[i].teilleistung_id
                     ELSE bracketId(cat[i].title),
            tlTitle |-> cleanTitle(cat[i].title),
            factsMerged |-> MergeAll(cat[i].New_Knowledge)]]

\* collectSessionKnowledge: per course id, in the order of the catalog, the
\* merge of the facts of the entries of the session
collectSessionKnowledge(cat, sessionId) ==
    LET RECURSIVE MergeAll(_)
        MergeAll(nk) == IF nk = <<>> THEN EmptyFacts
                        ELSE mergeFacts(MergeAll(SubSeq(nk, 1, Len(nk) - 1)),
                                        nk[Len(nk)].facts)
        RECURSIVE Items(_)
        Items(n) ==
            IF n = 0 THEN <<>>
            ELSE LET entry == cat[n]
                     acc == Items(n - 1)
                     tlId == IF entry.teilleistung_id # Null THEN entry.teilleistung_id
                             ELSE bracketId(entry.title)
                     mine == SelectSeq(entry.New_Knowledge,
                                       LAMBDA nk : nk.sessionId = sessionId)
                     merged == MergeAll(mine)
                     prev == {i \in 1..Len(acc) : acc[i].tlId = tlId}
                 IN IF mine = <<>> \/ tlId = Null THEN acc
                    ELSE IF prev # {}
                    THEN [acc EXCEPT ![CHOOSE i \in prev : TRUE] =
                             [tlId |-> tlId, tlTitle |-> cleanTitle(entry.title),
                              factsMerged |-> mergeFacts(@.factsMerged, merged)]]
                    ELSE Append(acc, [tlId |-> tlId, tlTitle |-> cleanTitle(entry.title),
                                      factsMerged |-> merged])
    IN Items(Len(cat))

\* naturalJoinDE: the truthy elements, joined
naturalJoinDE(arr) == JList(FilterTruthyStr(arr))

\* mapDifficulty
mapDifficulty(de) ==
    IF de.d = 1 /\ de.n \in 1..5
    THEN JStr(<<"sehr leicht", "leicht", "mittel", "anspruchsvoll",
                "sehr anspruchsvoll">>[de.n])
    ELSE JNull

\* renderFactsNarrativeDE: the heading and the sentences, each with the
\* values it prints
renderFactsNarrativeDE(title, tlId, f) ==
    LET Part(kind, vals) == <<[kind |-> kind, vals |-> vals]>>
        exam == Get(f, "exam_type")
        diff == Get(f, "difficulty_1_5")
        wk == Get(f, "prep_weeks")
        hpw == Get(f, "hours_per_week")
        List(k) == IF IsArray(Get(f, k)) /\ Get(f, k).l # <<>>
                   THEN Part(k, <<naturalJoinDE(Get(f, k).l)>>) ELSE <<>>
        parts ==
            (IF Truthy(exam) /\ IsFiniteNum(diff)
             THEN Part("exam_diff", <<exam, diff, mapDifficulty(diff)>>)
             ELSE IF Truthy(exam) THEN Part("exam", <<exam>>)
             ELSE IF IsFiniteNum(diff) THEN Part("diff", <<diff, mapDifficulty(diff)>>)
             ELSE <<>>)
            \o (IF Truthy(wk) /\ IsFiniteNum(wk) /\ Truthy(hpw) /\ IsFiniteNum(hpw)
                THEN Part("wk_hpw", <<wk, hpw>>)
                ELSE IF Truthy(wk) /\ IsFiniteNum(wk) THEN Part("wk", <<wk>>)
                ELSE IF Truthy(hpw) /\ IsFiniteNum(hpw) THEN Part("hpw", <<hpw>>)
                ELSE <<>>)
            \o List("strategies") \o List("materials") \o List("pitfalls") \o List("tips")
    IN [title |-> title, tlId |-> tlId,
        body |-> IF parts # <<>> THEN parts ELSE Part("none", <<>>)]

\* renderKnowledgeMarkdown: one section per item, or the fixed text
renderKnowledgeMarkdown(items) ==
    IF items = <<>> THEN <<[title |-> "", tlId |-> "", body |-> <<>>]>>
    ELSE [i \in 1..Len(items) |->
             renderFactsNarrativeDE(items[i].tlTitle, items[i].tlId, items[i].factsMerged)]

\* The body of the answer of POST /api/evaluation/start over a catalog file
EvalStartReply(cat, sessionId) ==
    LET knowledgeItems == collectSessionKnowledge(cat, sessionId)
    IN [knowledge_markdown |-> renderKnowledgeMarkdown(knowledgeItems),
        new_knowledge |-> knowledgeItems,
        sessionId |-> sessionId]

\* POST /api/evaluation/start; a failure of the summary call is swallowed.
EvalStartTurn(sid) ==
    /\ Len(PreStored(sid).transcript) < MaxEvalTranscript
    /\ LET store == upsertSession(sessions, sid)
           s == sanitizeSessionShape(store[sid])
       IN sessions' = StoreWith(store, sid,
              addAssistantTurn(
                  [s EXCEPT !.evaluation = [state |-> "in_progress", answers |-> <<>>]],
                  MsgEvalStart))
    /\ last' = LastRec("eval_start", sid)
    /\ UNCHANGED <<catalog, kgJsonld, kgTurtle, evaluations, inflight>>

EvalStart(sid) == EvalStartTurn(sid) /\ UNCHANGED <<call, ret>>

\* POST /api/evaluation/submit
EvalSubmit(sid, ratings) ==
    IF invalidRatings(ratings)
    THEN /\ last' = [LastRec("eval_submit", sid) EXCEPT !.ratings = ratings, !.err = "400"]
         /\ UNCHANGED <<sessions, catalog, kgJsonld, kgTurtle, evaluations, inflight, call, ret>>
    ELSE /\ Len(PreStored(sid).transcript) < MaxEvalTranscript
         /\ Len(evaluations) < MaxEvaluations
         /\ LET store == upsertSession(sessions, sid)
                s == sanitizeSessionShape(store[sid])
            IN /\ sessions' = StoreWith(store, sid,
                      addAssistantTurn(
                          [s EXCEPT !.evaluation = [state |-> "done",
                                                    answers |-> answersOf(ratings)]],
                          MsgEvalDone))
               /\ evaluations' = Append(evaluations,
                      [sessionId |-> sid, ratings |-> answersOf(ratings)])
         /\ last' = [LastRec("eval_submit", sid) EXCEPT !.ratings = ratings, !.ok = TRUE]
         /\ UNCHANGED <<catalog, kgJsonld, kgTurtle, inflight, call, ret>>

\* DELETE /api/conversations/:sessionId
Delete(sid) ==
    /\ sessions' = IF sid \in DOMAIN sessions
                   THEN [x \in DOMAIN sessions \ {sid} |-> sessions[x]]
                   ELSE sessions
    /\ last' = [LastRec("delete", sid) EXCEPT
                   !.err = IF sid \in DOMAIN sessions THEN "none" ELSE "404"]
    /\ UNCHANGED <<catalog, kgJsonld, kgTurtle, evaluations, inflight, call, ret>>

\* The ratings a client sends: numbers in and out of range, strings, a boolean
RatingValues == {JNum(3), JNum(6), JStr("4"), JStr("drei"), JBool(TRUE)}
RatingInputs ==
    [{"overall"} -> RatingValues]
    \cup {[k \in {} |-> JNull],
          [k \in {"overall", "clarity"} |-> JNum(3)],
          [k \in {"overall", "clarity"} |-> IF k = "overall" THEN JNum(3) ELSE JNum(6)]}

\* An oracle that answers in form or is out of quota
EvalProfile ==
    [LongProfile EXCEPT !.errs = {"quota"}, !.intents = {"continue"},
                        !.maxTranscript = MaxEvalTranscript,
                        !.maxSaves = MaxEvalTranscript,
                        !.boundFaults = FALSE]

EvalNext ==
    \/ \E force \in BOOLEAN : Start("s1", force)
    \/ Reset("s1")
    \/ Retrieve("s1", EvalProfile)
    \/ EvalStart("s1")
    \/ \E ratings \in RatingInputs : EvalSubmit("s1", ratings)
    \/ Delete("s1")

SpecEval == InitLong /\ [][EvalNext]_vars

\* Retrieve turns that overlap with deletions of conversations
DeleteProfile ==
    [ConcProfile EXCEPT !.users = {"Antwort"},
                        !.maxTranscript = MaxDeleteTranscript,
                        !.maxSaves = MaxDeleteTranscript]

DeleteNext ==
    \/ \E sid \in SessionIds : RetrieveBegin(sid, DeleteProfile)
    \/ \E i \in 1..Len(inflight) : RetrieveEnd(i, DeleteProfile)
    \/ \E sid \in SessionIds : Delete(sid)

SpecDelete == InitLong /\ [][DeleteNext]_vars

(***************************************************************************)
(* Two runs of the knowledge store that differ only in what sessions other *)
(* than "s1" save: the catalog of the one is the variable catalog, the     *)
(* store of the other is carried in call.                                  *)
(***************************************************************************)
RunFacts == {FactsExamStrat, FactsDiffStrat}
RunCourses == {<<"T-1", TitleMathe>>, <<"T-2", "Statistik">>}

InitRuns ==
    /\ sessions = EmptyStore
    /\ catalog = InitialCatalog
    /\ kgJsonld = <<>>
    /\ kgTurtle = <<>>
    /\ evaluations = <<>>
    /\ inflight = <<>>
    /\ call = [fn |-> "runs", ks |-> KS(InitialCatalog, <<>>, <<>>)]
    /\ ret = NoCall
    /\ last = LastRec("init", Null)

\* saveNewKnowledge by the session itself: the same call in both runs
SaveOwn(sid, tl, facts) ==
    LET one == saveNewKnowledge(KS(catalog, kgJsonld, kgTurtle), tl[1], sid, tl[2], facts).ks
        two == saveNewKnowledge(call.ks, tl[1], sid, tl[2], facts).ks
    IN /\ Len(one.turtle) <= MaxRunSaves /\ Len(two.turtle) <= MaxRunSaves
       /\ catalog' = one.catalog /\ kgJsonld' = one.jsonld /\ kgTurtle' = one.turtle
       /\ call' = [call EXCEPT !.ks = two]
       /\ last' = [LastRec("save", sid) EXCEPT !.tl = tl[1], !.facts = facts]
       /\ UNCHANGED <<sessions, evaluations, inflight, ret>>

\* saveNewKnowledge by another session: in each run with facts of its own,
\* or not at all
SaveOther(sid, tl, f1, f2) ==
    LET ks1 == KS(catalog, kgJsonld, kgTurtle)
        one == IF f1 = <<>> THEN ks1
               ELSE saveNewKnowledge(ks1, tl[1], sid, tl[2], f1[1]).ks
        two == IF f2 = <<>> THEN call.ks
               ELSE saveNewKnowledge(call.ks, tl[1], sid, tl[2], f2[1]).ks
    IN /\ f1 # f2
       /\ Len(one.turtle) <= MaxRunSaves /\ Len(two.turtle) <= MaxRunSaves
       /\ catalog' = one.catalog /\ kgJsonld' = one.jsonld /\ kgTurtle' = one.turtle
       /\ call' = [call EXCEPT !.ks = two]
       /\ last' = [LastRec("save", sid) EXCEPT !.tl = tl[1]]
       /\ UNCHANGED <<sessions, evaluations, inflight, ret>>

\* POST /api/evaluation/start, answered in both runs
EvalStartRuns(sid) ==
    /\ EvalStartTurn(sid)
    /\ ret' = [fn |-> "evaluation.start",
               one |-> EvalStartReply(catalog, sid),
               two |-> EvalStartReply(call.ks.catalog, sid)]
    /\ call' = call

RunsNext ==
    \/ \E tl \in RunCourses, facts \in RunFacts : SaveOwn("s1", tl, facts)
    \/ \E tl \in RunCourses, f1, f2 \in {<<>>} \cup {<<f>> : f \in RunFacts} :
           SaveOther("s2", tl, f1, f2)
    \/ EvalStartRuns("s1")

SpecRuns == InitRuns /\ [][RunsNext]_vars

(***************************************************************************)
(* The pure functions on their own, applied to arguments drawn from small  *)
(* sets.                                                                   *)
(***************************************************************************)
FactsTypeTips ==
    [k \in {"exam_type", "tips", "strategies"} |->
        CASE k = "exam_type" -> JStr("mündlich")
          [] k = "tips" -> JList(<<"Altklausuren", "früh anfangen">>)
          [] OTHER -> JStr("Lerngruppe")]
FactsLists ==
    [k \in {"exam_type", "strategies", "tips", "prep_weeks"} |->
        CASE k = "exam_type" -> JNull
          [] k = "strategies" -> JList(<<"Lerngruppe", "Altklausuren", "Lerngruppe">>)
          [] k = "tips" -> JList(<<"", "Pausen">>)
          [] OTHER -> JNum(3)]

\* FactSets with null, absent and present scalars, with lists that repeat
\* items, hold empty items or are no arrays
MergeInputs ==
    {EmptyFacts, FactsExamStrat, FactsDiffStrat, FactsRepeated, FactsTypeTips, FactsLists}

MergeCall(a, b, c) ==
    /\ call = NoCall
    /\ call' = [fn |-> "mergeFacts", a |-> a, b |-> b, c |-> c]
    /\ ret' = [fn |-> "mergeFacts",
               ab |-> mergeFacts(a, b),
               left |-> mergeFacts(mergeFacts(a, b), c),
               right |-> mergeFacts(a, mergeFacts(b, c))]
    /\ UNCHANGED <<sessions, catalog, kgJsonld, kgTurtle, evaluations, inflight, last>>

\* sanitizeSessionShape on any object a store file can hold.  x.top holds
\* the fields of the session, x.cur those of its current when that is an
\* object; the result also tells whether the function threw (a property of
\* a primitive cannot be assigned or tested with `in` in a module).
OrDefault(f, k, dflt) == IF Truthy(Get(f, k)) THEN f[k] ELSE dflt
ArrayOr(f, k) == IF IsArray(Get(f, k)) THEN f[k] ELSE JList(<<>>)
NotNot(f, k) == JBool(Truthy(Get(f, k)))
With(f, k, v) == [x \in DOMAIN f \cup {k} |-> IF x = k THEN v ELSE f[x]]
IsObject(v) == v.t \in {"obj", "list"}

sanitizeTop(top) ==
    [k \in DOMAIN top \cup {"stage", "general", "counters", "asked_log", "transcript",
                           "current"} |->
        CASE k = "stage" -> OrDefault(top, k, JStr("await_semester_progress"))
          [] k = "general" -> OrDefault(top, k, JObj("{semester:null,progress_percent:null}"))
          [] k = "counters" -> OrDefault(top, k, JObj("{general_q:0}"))
          [] k = "asked_log" -> ArrayOr(top, k)
          [] k = "transcript" -> ArrayOr(top, k)
          [] k = "current" -> OrDefault(top, k, JObj("current"))
          [] OTHER -> top[k]]

sanitizeCurrent_Negate(cur) ==
    [k \in DOMAIN cur |-> IF k = "awaiting_written_confirm"
                          THEN JBool(~Truthy(cur[k])) ELSE cur[k]]

sanitizeCurrent(cur) ==
    [k \in DOMAIN cur \cup {"area", "tl_id", "tl_title", "awaiting_written_confirm",
                           "awaiting_title_written_confirm", "candidates",
                           "awaiting_candidate_choice", "tl_facts", "in_tl_rounds",
                           "declinedWritten", "last_confirm_tl",
                           "awaiting_tl_title_confirm", "pending_tl_candidate"} |->
        CASE k \in {"area", "tl_id", "tl_title"} -> Get(cur, k)
          [] k \in {"awaiting_written_confirm", "awaiting_title_written_confirm",
                    "awaiting_candidate_choice"} -> NotNot(cur, k)
          [] k \in {"candidates", "declinedWritten"} -> ArrayOr(cur, k)
          [] k = "tl_facts" -> IF Truthy(Get(cur, k)) /\ IsObject(cur[k])
                               THEN cur[k] ELSE JObj("{}")
          [] k = "in_tl_rounds" -> IF IsFiniteNum(Get(cur, k)) THEN cur[k] ELSE JNum(0)
          [] k = "last_confirm_tl" -> OrDefault(cur, k, JNull)
          [] k = "awaiting_tl_title_confirm" ->
               IF k \in DOMAIN cur THEN cur[k] ELSE JBool(FALSE)
          [] k = "pending_tl_candidate" -> IF k \in DOMAIN cur THEN cur[k] ELSE JNull
          [] OTHER -> cur[k]]

sanitizeShape(x) ==
    LET top1 == sanitizeTop(x.top)
        cur0 == IF Truthy(Get(x.top, "current")) THEN x.cur ELSE EmptyFacts
    IN IF ~IsObject(top1["current"])
       THEN [top |-> top1, cur |-> cur0, threw |-> TRUE]
       ELSE [top |-> With(With(top1, "evaluation",
                               OrDefault(top1, "evaluation", JObj("{state:null,...}"))),
                          "flags", OrDefault(top1, "flags", JObj("{llm_disabled:false,...}"))),
             cur |-> sanitizeCurrent(cur0),
             threw |-> FALSE]

\* A session as upsertSession creates it
RawTop ==
    [k \in {"mode", "evaluation", "started_at", "stage", "general", "counters",
            "asked_log", "current", "flags", "transcript"} |->
        CASE k \in {"mode", "started_at", "stage"} -> JStr(k)
          [] k \in {"asked_log", "transcript"} -> JList(<<>>)
          [] OTHER -> JObj(k)]
RawCurrent ==
    [k \in {"area", "tl_id", "tl_title", "awaiting_written_confirm",
            "awaiting_title_written_confirm", "candidates", "awaiting_candidate_choice",
            "tl_facts", "in_tl_rounds", "declinedWritten", "last_confirm_tl",
            "awaiting_tl_title_confirm", "pending_tl_candidate"} |->
        CASE k \in {"area", "tl_id", "tl_title", "last_confirm_tl",
                    "pending_tl_candidate"} -> JNull
          [] k \in {"candidates", "declinedWritten"} -> JList(<<>>)
          [] k = "tl_facts" -> JObj("{}")
          [] k = "in_tl_rounds" -> JNum(0)
          [] OTHER -> JBool(FALSE)]

\* What a store file edited by hand can hold in a field: nothing (<<>>), or a
\* value of any type
FieldValues ==
    {<<>>} \cup {<<v>> : v \in {JNull, JStr(""), JStr("x"), JNum(0), JNum(2),
                                JBool(TRUE), JList(<<"x">>), JObj("x")}}

Put(f, k, v) == IF v = <<>> THEN [x \in DOMAIN f \ {k} |-> f[x]] ELSE With(f, k, v[1])

SanitizeCall(tk, tv, ck, cv) ==
    LET top == Put(RawTop, tk, tv)
        x == [top |-> top,
              cur |-> IF Get(top, "current").t = "obj"
                      THEN Put(RawCurrent, ck, cv) ELSE EmptyFacts]
        once == sanitizeShape(x)
    IN /\ call = NoCall
       /\ call' = [fn |-> "sanitizeSessionShape", x |-> x]
       /\ ret' = [fn |-> "sanitizeSessionShape", once |-> once,
                  twice |-> sanitizeShape([top |-> once.top, cur |-> once.cur])]
       /\ UNCHANGED <<sessions, catalog, kgJsonld, kgTurtle, evaluations, inflight, last>>

\* One HTTP exchange with the oracle: the status (0 when fetch fails), and
\* error.code and error.type of the body ("" when the body has none)
Responses ==
    {[status |-> 200, code |-> "", type |-> ""],
     [status |-> 0, code |-> "", type |-> ""],
     [status |-> 429, code |-> "insufficient_quota", type |-> "insufficient_quota"],
     [status |-> 429, code |-> "", type |-> "insufficient_quota"],
     [status |-> 429, code |-> "rate_limit_exceeded", type |-> "requests"],
     [status |-> 429, code |-> "", type |-> ""],
     [status |-> 500, code |-> "server_error", type |-> "insufficient_quota"],
     [status |-> 401, code |-> "invalid_api_key", type |-> "invalid_request_error"]}

\* String(code).includes(sub) on the codes above
Includes(code, sub) ==
    CASE sub = "insufficient_quota" -> code = "insufficient_quota"
      [] sub = "rate" -> code = "rate_limit_exceeded"
      [] OTHER -> FALSE

\* openaiChatRaw: the content, or an error with its flags
openaiChatRaw(model, r) ==
    IF r.status = 200
    THEN [ok |-> TRUE, model |-> model, isQuota |-> FALSE, isRateLimit |-> FALSE]
    ELSE LET code == IF r.code # "" THEN r.code ELSE r.type
         IN [ok |-> FALSE, model |-> model,
             isQuota |-> r.status = 429 /\ Includes(code, "insufficient_quota"),
             isRateLimit |-> r.status = 429 /\ Includes(code, "rate")]

openaiChat_RetryQuota(model, fallback, r1, r2) ==
    LET first == openaiChatRaw(model, r1)
    IN IF first.ok THEN <<first>>
       ELSE IF fallback # Null /\ model # fallback
       THEN <<first, openaiChatRaw(fallback, r2)>>
       ELSE <<first>>

\* openaiChat: the oracle calls it makes, in order; the last is its outcome
openaiChat(model, fallback, r1, r2) ==
    LET first == openaiChatRaw(model, r1)
    IN IF first.ok THEN <<first>>
       ELSE IF ~first.isQuota /\ fallback # Null /\ model # fallback
       THEN <<first, openaiChatRaw(fallback, r2)>>
       ELSE <<first>>

\* OPENAI_MODEL and what OPENAI_FALLBACK_MODEL can be set to
Models == {"gpt-5-mini", "gpt-4o-mini"}

ChatCall(model, fallback, r1, r2) ==
    /\ call = NoCall
    /\ call' = [fn |-> "openaiChat", model |-> model, fallback |-> fallback,
                r1 |-> r1, r2 |-> r2]
    /\ ret' = [fn |-> "openaiChat", calls |-> openaiChat(model, fallback, r1, r2)]
    /\ UNCHANGED <<sessions, catalog, kgJsonld, kgTurtle, evaluations, inflight, last>>

\* What the oracle can give for semester and progress_percent
SemesterValues == {JNull, JNum(5), JNum(1), JNum(20), JNum(0), JNum(25), JFrac(5, 2), JStr("70")}
ProgressValues ==
    {JNull, JNum(70), JNum(0), JNum(100), JNum(150), JNum(-5), JFrac(141, 2),
     JStr("70"), JStr("x"), JBool(TRUE)}
IntroReplies ==
    {NoObject} \cup {Object([semester |-> a, progress_percent |-> b])
                     : a \in SemesterValues, b \in ProgressValues}

\* The turn in await_semester_progress stores what llmIntro returns
IntroCall(reply) ==
    /\ call = NoCall
    /\ call' = [fn |-> "llmIntro", reply |-> reply]
    /\ ret' = [fn |-> "llmIntro", general |-> llmIntro(reply)]
    /\ UNCHANGED <<sessions, catalog, kgJsonld, kgTurtle, evaluations, inflight, last>>

\* What norm returns: letters and single spaces between them, here up to
\* MaxNormLen characters of a three-character alphabet
NormStrings ==
    {t \in UNION {[1..n -> {"a", "b", " "}] : n \in 0..MaxNormLen} :
        /\ Len(t) > 0 => t[1] # " " /\ t[Len(t)] # " "
        /\ \A i \in 1..(Len(t) - 1) : ~(t[i] = " " /\ t[i + 1] = " ")}

\* dice, tokenJacc and score on two normalized strings
ScoreCall(a, b) ==
    /\ call = NoCall
    /\ call' = [fn |-> "score", a |-> a, b |-> b]
    /\ ret' = [fn |-> "score",
               jab |-> tokenJaccOf(TokensFrom(a, <<>>), TokensFrom(b, <<>>)),
               jba |-> tokenJaccOf(TokensFrom(b, <<>>), TokensFrom(a, <<>>)),
               dab |-> diceOf(Bigrams(a), Bigrams(b)),
               score |-> scoreOf(diceOf(Bigrams(a), Bigrams(b)),
                                 tokenJaccOf(TokensFrom(a, <<>>), TokensFrom(b, <<>>)))]
    /\ UNCHANGED <<sessions, catalog, kgJsonld, kgTurtle, evaluations, inflight, last>>

Queries == {"Mathe", "Statistik", TitleMathe, TitleStat, ""}

CandidatesCall(query, k) ==
    /\ call = NoCall
    /\ call' = [fn |-> "candidates", query |-> query, k |-> k]
    /\ ret' = [fn |-> "candidates", out |-> candidates(query, k)]
    /\ UNCHANGED <<sessions, catalog, kgJsonld, kgTurtle, evaluations, inflight, last>>

\* Catalogs for the least-known heuristic: each course with no, one, two or
\* three earlier entries, one of them with a text for difficulty_1_5, and a
\* descriptor text around 200 characters, with and without white space at
\* its ends
KnowledgeLogs ==
    LET e(f) == NKEntry("s9", f, <<>>, <<>>)
    IN {<<>>, <<e(FactsExamStrat)>>, <<e(FactsWrongTypes)>>,
        <<e(FactsDiffStrat), e(FactsRepeated)>>,
        <<e(EmptyFacts), e(EmptyFacts), e(EmptyFacts)>>}
TextLengths ==
    {[textLen |-> 40, trimLen |-> 40], [textLen |-> 200, trimLen |-> 200],
     [textLen |-> 201, trimLen |-> 201], [textLen |-> 205, trimLen |-> 195]}
PickCatalogs ==
    {[i \in 1..2 |-> [InitialCatalog[i] EXCEPT
                         !.New_Knowledge = IF i = 1 THEN nk1 ELSE nk2,
                         !.textLen = (IF i = 1 THEN t1 ELSE t2).textLen,
                         !.trimLen = (IF i = 1 THEN t1 ELSE t2).trimLen]]
     : nk1 \in KnowledgeLogs, nk2 \in KnowledgeLogs, t1 \in TextLengths, t2 \in TextLengths}
ResolvedLists ==
    LET r(id) == [id |-> id, title |-> Null, confidence |-> 90]
    IN {<<r("T-1"), r("T-2")>>, <<r("T-2"), r("T-1")>>, <<r("T-2"), r("T-1"), r("T-2")>>,
        <<r("T-1"), r("T-9")>>}

PickCall(cat, resolvedList) ==
    /\ call = NoCall
    /\ call' = [fn |-> "pickLeastKnownOfResolved", cat |-> cat, resolved |-> resolvedList]
    /\ ret' = [fn |-> "pickLeastKnownOfResolved",
               best |-> pickLeastKnownOfResolved(cat, resolvedList)]
    /\ UNCHANGED <<sessions, catalog, kgJsonld, kgTurtle, evaluations, inflight, last>>

FnNext ==
    \/ \E cat \in PickCatalogs, resolvedList \in ResolvedLists : PickCall(cat, resolvedList)
    \/ \E a, b \in NormStrings : ScoreCall(a, b)
    \/ \E query \in Queries, k \in 0..MaxK : CandidatesCall(query, k)
    \/ \E reply \in IntroReplies : IntroCall(reply)
    \/ \E model \in Models, fallback \in Models \cup {Null}, r1, r2 \in Responses :
          ChatCall(model, fallback, r1, r2)
    \/ \E a, b, c \in MergeInputs : MergeCall(a, b, c)
    \/ \E tk \in DOMAIN RawTop, ck \in DOMAIN RawCurrent, tv, cv \in FieldValues :
          SanitizeCall(tk, tv, ck, cv)

SpecFn == InitLong /\ [][FnNext]_vars

(***************************************************************************)
(* Claims about the knowledge store (checked under SpecKS)                 *)
(***************************************************************************)
NKOf(cat, i) == cat[i].New_Knowledge

\* The facts the catalog holds for (course located by tlId / title, session),
\* as a sequence: empty when there is no such entry.
EntryFacts(cat, tlId, tlTitleClean, sessionId) ==
    LET idx == CatalogIndex(cat, tlId, tlTitleClean)
    IN IF idx = 0 THEN <<>>
       ELSE LET nk == NKOf(cat, idx)
                j == LastSameSessionIdx(nk, sessionId)
            IN IF j = 0 THEN <<>> ELSE <<nk[j].facts>>

\* Every scalar and every list field of a FactSet, an absent scalar read as null
\* and an absent or null list as the empty list.
FactsView(f) ==
    [k \in Range(ScalarKeys) \cup Range(ListKeys) |->
        IF k \in Range(ListKeys) THEN JList(ArrayOrEmpty(Get(f, k))) ELSE Get(f, k)]

\* The step is a save_new_knowledge call (and not a stuttering step).
SaveStep == last'.op = "save" /\ vars' # vars

\* C8: each course's New_Knowledge log holds at most one entry per session id.
C8_OneEntryPerSession ==
    \A i \in 1..Len(catalog) :
        \A a, b \in 1..Len(NKOf(catalog, i)) :
            NKOf(catalog, i)[a].sessionId = NKOf(catalog, i)[b].sessionId => a = b

\* A save has merged into an existing entry of a course that holds entries of
\* both sessions.
C8_Witness ==
    /\ last.op = "save" /\ last.merged
    /\ \E i \in 1..Len(catalog) : Len(NKOf(catalog, i)) = 2

\* C9: a save repeated with the same (course_id, session_id, facts) leaves the
\* facts of the course entry exactly as the first call left them.
C9_SaveIdempotent ==
    [][(/\ last.op = "save" /\ last.ok
        /\ SaveStep
        /\ last'.sid = last.sid /\ last'.tl = last.tl
        /\ last'.title = last.title /\ last'.facts = last.facts)
       => FactsView(EntryFacts(catalog', last.tl, last.title, last.sid)[1])
            = FactsView(EntryFacts(catalog, last.tl, last.title, last.sid)[1])]_vars

\* C10 as claimed: the first save of a pair appends one JSON-LD document and one
\* Turtle block, and a later save of that pair (the merge call) appends no
\* JSON-LD document.
C10_NoDocumentOnMerge ==
    [][(SaveStep /\ last'.ok)
       => IF last'.merged
          THEN Len(kgJsonld') = Len(kgJsonld)
          ELSE /\ Len(kgJsonld') = Len(kgJsonld) + 1
               /\ Len(kgTurtle') = Len(kgTurtle) + 1]_vars

\* C10 as amended: every save that locates its course appends exactly one
\* JSON-LD document and one Turtle block; the first save of a pair appends one
\* entry to the course's log and a later one rewrites that entry in place.
C10_OneDocumentPerSave ==
    [][SaveStep
       => IF last'.ok
          THEN /\ kgJsonld' = Append(kgJsonld,
                     toJSONLD(last'.tl, last'.title, last'.sid,
                              EntryFacts(catalog', last'.tl, last'.title, last'.sid)[1]))
               /\ Len(kgTurtle') = Len(kgTurtle) + 1
               /\ LET idx == CatalogIndex(catalog, last'.tl, last'.title)
                  IN /\ \A i \in 1..Len(catalog) :
                          i # idx => catalog'[i] = catalog[i]
                     /\ Len(NKOf(catalog', idx)) =
                          Len(NKOf(catalog, idx)) + (IF last'.merged THEN 0 ELSE 1)
                     /\ last'.merged <=>
                          EntryFacts(catalog, last'.tl, last'.title, last'.sid) # <<>>
          ELSE /\ catalog' = catalog /\ kgJsonld' = kgJsonld
               /\ kgTurtle' = kgTurtle]_vars

\* A merge call has run and the JSON-LD file holds the documents of both calls.
C10_Witness ==
    /\ last.op = "save" /\ last.merged
    /\ Len(kgJsonld) = 2 /\ Len(kgTurtle) = 2
    /\ kgJsonld[1].evidence = kgJsonld[2].evidence
(***************************************************************************)
(* Claims about the dialogue controller                                    *)
(***************************************************************************)
\* The session of sid before a step; a turn creates a missing one.
PreSession(sid) == IF sid \in DOMAIN sessions THEN sessions[sid] ELSE NewSession

\* A step that is a handled POST /api/retrieve
RetrieveStep == last'.op = "retrieve" /\ sessions' # sessions

AwaitingCount(c) ==
    (IF c.awaiting_written_confirm THEN 1 ELSE 0)
    + (IF c.awaiting_title_written_confirm THEN 1 ELSE 0)
    + (IF c.awaiting_candidate_choice THEN 1 ELSE 0)

\* C1: every handled retrieve turn, whatever the oracle replies and however
\* it fails, appends to the persisted transcript exactly the user entry and
\* then one assistant entry, and appends at most one element to asked_log.
C1_TurnAppendsUserThenAssistant ==
    [][RetrieveStep =>
        LET pre == PreSession(last'.sid)
            post == sessions'[last'.sid]
            n == Len(pre.transcript)
        IN /\ Len(post.transcript) = n + 2
           /\ SubSeq(post.transcript, 1, n) = pre.transcript
           /\ post.transcript[n + 1] = [role |-> "user", content |-> <<last'.user>>]
           /\ post.transcript[n + 2].role = "assistant"
           /\ Len(post.asked_log) <= Len(pre.asked_log) + 1
           /\ SubSeq(post.asked_log, 1, Len(pre.asked_log)) = pre.asked_log]_vars

\* A turn whose oracle call hit the rate limit has been answered after two
\* earlier entries.
C1_Witness ==
    /\ last.op = "retrieve" /\ last.err = "rate"
    /\ Len(sessions[last.sid].transcript) >= 4
    /\ sessions[last.sid].transcript[Len(sessions[last.sid].transcript)]
         = [role |-> "assistant", content |-> MsgRate]

\* C2: asked_log never holds two equal strings.
C2_NoRepeatedQuestion ==
    \A sid \in DOMAIN sessions :
        \A i, j \in 1..Len(sessions[sid].asked_log) :
            sessions[sid].asked_log[i] = sessions[sid].asked_log[j] => i = j

\* C3: in every persisted session at most one of awaiting_written_confirm,
\* awaiting_title_written_confirm and awaiting_candidate_choice is true.
C3_AtMostOneAwaiting ==
    \A sid \in DOMAIN sessions : AwaitingCount(sessions[sid].current) <= 1

\* C4: in every persisted session pending_tl_candidate is non-null exactly
\* when awaiting_title_written_confirm is true.
C4_PendingIffAwaitingTitle ==
    \A sid \in DOMAIN sessions :
        (sessions[sid].current.pending_tl_candidate # <<>>)
          <=> sessions[sid].current.awaiting_title_written_confirm

\* C5: in every persisted session candidates is non-empty exactly when
\* awaiting_candidate_choice is true, also when the catalog yields fewer than
\* three candidates or none.
C5_CandidatesIffAwaitingChoice ==
    \A sid \in DOMAIN sessions :
        (sessions[sid].current.candidates # <<>>)
          <=> sessions[sid].current.awaiting_candidate_choice

\* C6: every turn that changes the stage to in_tl (direct entry from general
\* or tl_search, combined confirmation with yes and written) persists
\* in_tl_rounds = 0 and tl_facts = {}.
C6_EntryResetsRoundsAndFacts ==
    [][(/\ RetrieveStep
        /\ PreSession(last'.sid).stage # "in_tl"
        /\ sessions'[last'.sid].stage = "in_tl")
       => /\ sessions'[last'.sid].current.in_tl_rounds = 0
          /\ sessions'[last'.sid].current.tl_facts = EmptyFacts]_vars

\* in_tl has been entered again after a course whose rounds ran out, with the
\* facts of that course saved and no abort or error on the way.
C6_Witness ==
    /\ last.op = "retrieve" /\ last.path = "enter_in_tl" /\ last.err = "none"
    /\ last.faults = 0
    /\ Len(kgTurtle) >= MAX_IN_TL_ROUNDS
    /\ sessions[last.sid].stage = "in_tl"
    /\ sessions[last.sid].current.tl_facts = EmptyFacts

\* C7: counted from an entry into in_tl, each of the first six consecutive
\* turns handled in in_tl without abort or oracle error leaves the stage at
\* in_tl; the seventh sets the stage to wrap_up and in_tl_rounds to 0 and
\* neither extracts nor saves facts.
C7_SeventhTurnWrapsUp ==
    [][(/\ RetrieveStep
        /\ last.sid = last'.sid /\ last.streak >= 0
        /\ PreSession(last'.sid).stage = "in_tl"
        /\ last'.err = "none" /\ last'.path # "abort")
       => LET pre == PreSession(last'.sid)
              post == sessions'[last'.sid]
          IN IF last.streak < 6
             THEN /\ post.stage = "in_tl"
                  /\ post.current.in_tl_rounds = last.streak + 1
             ELSE /\ last.streak = 6
                  /\ post.stage = "wrap_up"
                  /\ post.current.in_tl_rounds = 0
                  /\ post.current.tl_facts = pre.current.tl_facts
                  /\ <<catalog, kgJsonld, kgTurtle>>' = <<catalog, kgJsonld, kgTurtle>>]_vars

\* The seventh consecutive turn has been handled.
C7_Witness ==
    /\ last.op = "retrieve" /\ last.streak = 7 /\ last.path = "round_budget"
    /\ sessions[last.sid].stage = "wrap_up"
    /\ sessions[last.sid].current.in_tl_rounds = 0

LastEntry(s) == s.transcript[Len(s.transcript)]

\* C11: a turn whose oracle call fails with quota persists llm_disabled with
\* the reason; every later turn of the session is answered with the stored
\* reason on the path that calls no oracle and leaves stage, current,
\* counters, asked_log and the knowledge store as they were; only
\* interview.reset and interview.start with force clear the flag.
C11_QuotaDisablesUntilReset ==
    [][/\ (RetrieveStep /\ last'.err = "quota")
          => sessions'[last'.sid].flags
               = [llm_disabled |-> TRUE, llm_disabled_reason |-> MsgQuota]
       /\ (RetrieveStep /\ PreSession(last'.sid).flags.llm_disabled)
          => LET pre == PreSession(last'.sid)
                 post == sessions'[last'.sid]
             IN /\ last'.path = "llm_disabled" /\ last'.err = "none"
                /\ LastEntry(post)
                     = [role |-> "assistant", content |-> pre.flags.llm_disabled_reason]
                /\ post.stage = pre.stage
                /\ post.current = pre.current
                /\ post.counters = pre.counters
                /\ post.asked_log = pre.asked_log
                /\ post.flags = pre.flags
                /\ <<catalog, kgJsonld, kgTurtle>>' = <<catalog, kgJsonld, kgTurtle>>
       /\ \A sid \in DOMAIN sessions :
            (/\ sessions[sid].flags.llm_disabled
             /\ ~sessions'[sid].flags.llm_disabled)
            => /\ last'.sid = sid
               /\ \/ last'.op = "reset"
                  \/ last'.op = "start" /\ last'.path = "force"]_vars

\* A turn has been answered with the stored reason after the turn that failed.
C11_Witness ==
    /\ last.op = "retrieve" /\ last.path = "llm_disabled"
    /\ Len(sessions[last.sid].transcript) >= 4
    /\ sessions[last.sid].transcript[Len(sessions[last.sid].transcript) - 2]
         = [role |-> "assistant", content |-> MsgQuota]
    /\ LastEntry(sessions[last.sid]) = [role |-> "assistant", content |-> MsgQuota]

GreetingCount(s) ==
    Cardinality({i \in 1..Len(s.transcript) :
                    s.transcript[i] = [role |-> "assistant", content |-> Greeting]})

\* C15: the greeting occurs at most once in every transcript, exactly once
\* after interview.start and interview.reset, and interview.start without
\* force on a session that holds the greeting changes nothing.
C15_GreetingOnce ==
    /\ [](\A sid \in DOMAIN sessions : GreetingCount(sessions[sid]) <= 1)
    /\ [][/\ last'.op \in {"start", "reset"}
             => GreetingCount(sessions'[last'.sid]) = 1
          /\ (/\ last'.op = "start" /\ last'.path = "no_force"
              /\ last'.sid \in DOMAIN sessions
              /\ hasIntroGreeting(sessions[last'.sid]))
             => sessions' = sessions]_vars

\* interview.start without force has been repeated after a turn.
C15_Witness ==
    /\ last.op = "start" /\ last.path = "no_force"
    /\ Len(sessions[last.sid].transcript) >= 3
    /\ sessions[last.sid].transcript[1] = [role |-> "assistant", content |-> Greeting]
    /\ LastEntry(sessions[last.sid]).role = "assistant"
    /\ LastEntry(sessions[last.sid]).content # Greeting

\* C17: a turn that persists a longer asked_log also persists an assistant
\* entry appended in that turn, and a turn that fails persists asked_log as
\* it was.
C17_AskedOnlyWithAssistantEntry ==
    [][RetrieveStep
       => LET pre == PreSession(last'.sid)
              post == sessions'[last'.sid]
          IN /\ Len(post.asked_log) > Len(pre.asked_log)
                => \E i \in (Len(pre.transcript) + 1)..Len(post.transcript) :
                       post.transcript[i].role = "assistant"
             /\ last'.err # "none" => post.asked_log = pre.asked_log]_vars

\* A second question has been logged and is the last assistant entry.
C17_Witness ==
    /\ last.op = "retrieve" /\ last.err = "none"
    /\ Len(sessions[last.sid].asked_log) = 2
    /\ LastEntry(sessions[last.sid])
         = [role |-> "assistant", content |-> <<sessions[last.sid].asked_log[2]>>]

\* The working fields as the abort branch leaves them
Aborted(pre, post) ==
    /\ post.stage = "tl_search"
    /\ post.current = [DefaultCurrent EXCEPT
                          !.area = pre.current.area,
                          !.declinedWritten = pre.current.declinedWritten,
                          !.last_confirm_tl = pre.current.last_confirm_tl]

\* C18 as stated: every turn whose control intent is abort ends with stage
\* tl_search, the working fields cleared and current.area unchanged.
C18_AbortClears ==
    [][(RetrieveStep /\ last'.path \in {"abort", "abort_throw"})
       => Aborted(PreSession(last'.sid), sessions'[last'.sid])]_vars

\* C18 amended: a turn whose control intent is abort and whose question call
\* returns ends with stage tl_search, the working fields cleared and
\* current.area unchanged; when the question call fails, stage, current and
\* asked_log are persisted as they were before the turn.
C18_AbortClearsUnlessOracleFails ==
    [][RetrieveStep
       => LET pre == PreSession(last'.sid)
              post == sessions'[last'.sid]
          IN /\ last'.path = "abort" => Aborted(pre, post)
             /\ last'.path = "abort_throw"
                => /\ post.stage = pre.stage
                   /\ post.current = pre.current
                   /\ post.asked_log = pre.asked_log]_vars

\* An abort has been handled in a session whose area was noted before.
C18_Witness ==
    /\ last.op = "retrieve" /\ last.path = "abort"
    /\ sessions[last.sid].stage = "tl_search"
    /\ sessions[last.sid].current.area # Null

(***************************************************************************)
(* Claims about evaluation and the session lifecycle (checked under        *)
(* SpecEval)                                                               *)
(***************************************************************************)
\* C16: after interview.start with force and after interview.reset the
\* session is the initial session (stage, general, counters, asked_log,
\* current, flags, evaluation.state) with the greeting as its transcript.
C16_ResetRestoresInitial ==
    [][(\/ last'.op = "reset"
        \/ last'.op = "start" /\ last'.path = "force")
       => sessions'[last'.sid]
            = [NewSession EXCEPT
                  !.transcript = <<[role |-> "assistant", content |-> Greeting]>>]]_vars

\* A rating as the claim has it: a finite number in 1..5
IsRating(v) == v.t = "num" /\ v.n >= 1 /\ v.n <= 5

\* C19: evaluation.submit with a rating that is not a finite number in 1..5
\* answers 400 and changes neither the session store nor the evaluations
\* log; with all ratings valid it sets evaluation.state to done and appends
\* exactly one record to the log.
C19_SubmitValidatesRatings ==
    [][last'.op = "eval_submit"
       => IF \E k \in DOMAIN last'.ratings : ~IsRating(last'.ratings[k])
          THEN /\ last'.err = "400"
               /\ sessions' = sessions
               /\ evaluations' = evaluations
          ELSE /\ last'.err = "none"
               /\ sessions'[last'.sid].evaluation.state = "done"
               /\ Len(evaluations') = Len(evaluations) + 1
               /\ SubSeq(evaluations', 1, Len(evaluations)) = evaluations
               /\ evaluations'[Len(evaluations')].sessionId = last'.sid]_vars

\* C20: retrieve, evaluation.start and evaluation.submit add no session id
\* to the session store.
C20_OnlyStartCreates ==
    [][last'.op \in {"retrieve", "eval_start", "eval_submit"}
       => DOMAIN sessions' \subseteq DOMAIN sessions]_vars

(***************************************************************************)
(* Claims about overlapping requests (checked under SpecConc)              *)
(***************************************************************************)
\* C13: whatever requests of the same session overlap, the step in which a
\* retrieve request of a session completes never shortens the persisted
\* transcript of that session, and keeps every entry persisted before it.
C13_TranscriptGrows ==
    [][(last'.op = "retrieve_end" /\ last'.sid \in DOMAIN sessions)
       => LET pre == sessions[last'.sid].transcript
              post == sessions'[last'.sid].transcript
          IN /\ Len(post) >= Len(pre)
             /\ SubSeq(post, 1, Len(pre)) = pre]_vars

\* C14: the step in which a retrieve request of one session completes leaves
\* the persisted sessions of all other ids as they were.
C14_OtherSessionsUntouched ==
    [][last'.op = "retrieve_end"
       => \A sid \in DOMAIN sessions \ {last'.sid} :
              sid \in DOMAIN sessions' /\ sessions'[sid] = sessions[sid]]_vars

(***************************************************************************)
(* Claims about the pure functions (checked under SpecFn)                  *)
(***************************************************************************)
ScalarOK(a, b, ab, k) ==
    Get(ab, k) = IF Get(b, k).t # "null" THEN b[k] ELSE Get(a, k)

\* The position of the first occurrence of x in sq (x occurs in sq)
FirstAt(x, sq) == CHOOSE i \in 1..Len(sq) : sq[i] = x /\ \A j \in 1..(i - 1) : sq[j] # x

\* out holds each item of keep once, in the order of first occurrence in sq
UnionInOrder(out, sq, keep) ==
    /\ Range(out) = keep
    /\ \A i, j \in 1..Len(out) :
          i < j => out[i] # out[j] /\ FirstAt(out[i], sq) < FirstAt(out[j], sq)

\* C22 as stated: each scalar of merge(a,b) is b's value when that is non-null
\* and a's otherwise; each list field holds the items of a followed by the
\* items of b, each once, in first-seen order.
C22_MergeIsUnion ==
    call.fn = "mergeFacts"
    => /\ \A k \in Range(ScalarKeys) : ScalarOK(call.a, call.b, ret.ab, k)
       /\ \A k \in Range(ListKeys) :
            LET items == ArrayOrEmpty(Get(call.a, k)) \o ArrayOrEmpty(Get(call.b, k))
            IN IsArray(ret.ab[k]) /\ UnionInOrder(ret.ab[k].l, items, Range(items))

\* C22 amended: the scalars as stated; each list field holds the non-empty
\* items of a followed by those of b, each once, in first-seen order, a field
\* that is no array counting as an empty list.
C22_MergeIsUnionOfNonEmpty ==
    call.fn = "mergeFacts"
    => /\ \A k \in Range(ScalarKeys) : ScalarOK(call.a, call.b, ret.ab, k)
       /\ \A k \in Range(ListKeys) :
            LET items == ArrayOrEmpty(Get(call.a, k)) \o ArrayOrEmpty(Get(call.b, k))
            IN IsArray(ret.ab[k]) /\ UnionInOrder(ret.ab[k].l, items, Range(items) \ {""})

\* b's null scalar has left a's value, and a list field joins items of both
\* of which one occurs in both.
C22_Witness ==
    /\ call.fn = "mergeFacts"
    /\ call.a = FactsExamStrat /\ call.b = FactsLists
    /\ call.b["exam_type"].t = "null"
    /\ ret.ab["exam_type"] = JStr("schriftlich")
    /\ ret.ab["strategies"] = JList(<<"Altklausuren", "Lerngruppe">>)

\* The last non-null value of key k among the FactSets of sq, null for none
RECURSIVE LastNonNull(_, _)
LastNonNull(sq, k) ==
    IF sq = <<>> THEN JNull
    ELSE IF Get(sq[Len(sq)], k).t # "null" THEN sq[Len(sq)][k]
         ELSE LastNonNull(SubSeq(sq, 1, Len(sq) - 1), k)

\* C23: merge(merge(a,b),c) and merge(a,merge(b,c)) have the same list
\* fields, and each scalar of both is the last non-null value among a, b, c.
C23_MergeAssociative ==
    call.fn = "mergeFacts"
    => /\ \A k \in Range(ListKeys) : ret.left[k] = ret.right[k]
       /\ \A k \in Range(ScalarKeys) :
            /\ Get(ret.left, k) = LastNonNull(<<call.a, call.b, call.c>>, k)
            /\ Get(ret.right, k) = LastNonNull(<<call.a, call.b, call.c>>, k)

\* Three FactSets of which the last holds a null where the first holds a
\* value, and whose lists overlap
C23_Witness ==
    /\ call.fn = "mergeFacts"
    /\ call.a = FactsExamStrat /\ call.b = FactsLists /\ call.c = FactsDiffStrat
    /\ ret.left["exam_type"] = JStr("schriftlich")
    /\ ret.left["strategies"] = JList(<<"Altklausuren", "Lerngruppe">>)

(***************************************************************************)
(* Claims about the facts of a course (checked under SpecFacts)            *)
(***************************************************************************)
\* C21: after a fact-collecting in_tl turn tl_facts is the merge of the
\* earlier tl_facts with the facts extracted from one of the replies, and
\* equals the facts of the knowledge entry of (tl_id, session).
C21_TlFactsAreMerged ==
    [][(/\ RetrieveStep /\ last'.err = "none" /\ last'.path = "in_tl_next"
        /\ PreSession(last'.sid).current.tl_title # Null)
       => LET pre == PreSession(last'.sid).current
              post == sessions'[last'.sid].current
              entry == EntryFacts(catalog', post.tl_id, cleanTitle(post.tl_title),
                                  last'.sid)
          IN /\ \E fr \in FactsProfile.facts :
                   FactsView(post.tl_facts)
                     = FactsView(mergeFacts(pre.tl_facts, llmExtractFacts(fr)))
             /\ entry # <<>>
             /\ FactsView(entry[1]) = FactsView(post.tl_facts)]_vars

\* C24: for every session object, with a missing or wrongly typed field of
\* the session and of its current, sanitizing twice gives what sanitizing
\* once gives.
C24_SanitizeIdempotent ==
    call.fn = "sanitizeSessionShape"
    => /\ ret.twice.top = ret.once.top
       /\ ret.twice.cur = ret.once.cur
       /\ ret.twice.threw = ret.once.threw

\* A session without stage and with a string for in_tl_rounds was repaired.
C24_Witness ==
    /\ call.fn = "sanitizeSessionShape"
    /\ "stage" \notin DOMAIN call.x.top
    /\ Get(call.x.cur, "in_tl_rounds") = JStr("x")
    /\ ret.once.top["stage"] = JStr("await_semester_progress")
    /\ ret.once.cur["in_tl_rounds"] = JNum(0)
    /\ ~ret.once.threw

\* C25: between leaving in_tl because the round budget is exhausted and the
\* next time the stage is tl_search, exactly one phase-4 question is emitted.
\* The stage wrap_up is entered by the budget turn only, and that turn has
\* emitted a phase-4 question; so the turn that leads from wrap_up to
\* tl_search emits no further one (an abort emits a phase-2 question).
C25_OnePhase4Question ==
    [][(/\ RetrieveStep
        /\ PreSession(last'.sid).stage = "wrap_up"
        /\ sessions'[last'.sid].stage = "tl_search"
        /\ last'.path # "abort")
       => sessions'[last'.sid].asked_log = PreSession(last'.sid).asked_log]_vars

\* C26: with an empty catalog every mention is treated as unresolved:
\* whatever resolve_tl returns, no session gets a pending_tl_candidate or a
\* tl_id or the stage in_tl.
C26_EmptyCatalogResolvesNothing ==
    catalog = <<>>
    => \A sid \in DOMAIN sessions :
          /\ sessions[sid].current.pending_tl_candidate = <<>>
          /\ sessions[sid].current.tl_id = Null
          /\ sessions[sid].stage # "in_tl"

\* The oracle reports exhausted quota: status 429 with insufficient_quota
QuotaFailure(r) ==
    r.status = 429 /\ "insufficient_quota" = (IF r.code # "" THEN r.code ELSE r.type)

\* C27: for one invocation the adapter makes a second oracle call exactly
\* when the first fails with a non-quota error and a fallback model
\* different from the requested one is configured; the second call goes to
\* the fallback model; there is never a third call.
C27_RetryOnceUnlessQuota ==
    call.fn = "openaiChat"
    => /\ Len(ret.calls) \in {1, 2}
       /\ ret.calls[1].model = call.model
       /\ Len(ret.calls) = 2
            <=> /\ call.r1.status # 200 /\ ~QuotaFailure(call.r1)
                /\ call.fallback # Null /\ call.fallback # call.model
       /\ Len(ret.calls) = 2 => ret.calls[2].model = call.fallback

\* A rate-limited first call was retried against the fallback model, which
\* answered.
C27_Witness ==
    /\ call.fn = "openaiChat"
    /\ call.r1.status = 429 /\ call.r1.code = "rate_limit_exceeded"
    /\ call.fallback # Null /\ call.fallback # call.model
    /\ Len(ret.calls) = 2 /\ ret.calls[2].ok

\* A first call that failed with quota was not retried although a fallback
\* model is configured.
C27_WitnessQuota ==
    /\ call.fn = "openaiChat"
    /\ QuotaFailure(call.r1)
    /\ call.fallback # Null /\ call.fallback # call.model
    /\ Len(ret.calls) = 1 /\ ret.calls[1].isQuota

IsIntIn(v, lo, hi) == v.t = "num" /\ v.d = 1 /\ v.n \in lo..hi

\* C28: for every oracle output the stored general.semester is an integer in
\* 1..20 or null and general.progress_percent is in 0..100 or null, and a
\* progress_percent outside 0..100 is stored as null.
C28_IntroOutOfRangeIsNull ==
    call.fn = "llmIntro"
    => /\ ret.general.semester = JNull \/ IsIntIn(ret.general.semester, 1, 20)
       /\ ret.general.progress_percent = JNull
            \/ IsIntIn(ret.general.progress_percent, 0, 100)
       /\ \A p \in {call.reply[i].progress_percent : i \in DOMAIN call.reply} :
             (p.t = "num" /\ (p.n < 0 \/ p.n > 100 * p.d))
                => ret.general.progress_percent = JNull

DifficultyOK(f) ==
    Get(f, "difficulty_1_5") = JNull \/ IsIntIn(Get(f, "difficulty_1_5"), 1, 5)
FiniteOrNull(f, k) == Get(f, k).t \in {"null", "num"}

\* C29: whatever the oracle returns from extract_facts, difficulty_1_5 in
\* tl_facts and in the knowledge store is an integer in 1..5 or null, and
\* prep_weeks and hours_per_week are finite numbers or null.
C29_FactNumbersInRange ==
    /\ \A sid \in DOMAIN sessions :
          LET f == sessions[sid].current.tl_facts
          IN DifficultyOK(f) /\ FiniteOrNull(f, "prep_weeks")
                             /\ FiniteOrNull(f, "hours_per_week")
    /\ \A i \in DOMAIN catalog : \A j \in DOMAIN NKOf(catalog, i) :
          LET f == NKOf(catalog, i)[j].facts
          IN DifficultyOK(f) /\ FiniteOrNull(f, "prep_weeks")
                             /\ FiniteOrNull(f, "hours_per_week")

\* The part of C29 about prep_weeks and hours_per_week
C29_WeeksAndHoursFinite ==
    /\ \A sid \in DOMAIN sessions :
          LET f == sessions[sid].current.tl_facts
          IN FiniteOrNull(f, "prep_weeks") /\ FiniteOrNull(f, "hours_per_week")
    /\ \A i \in DOMAIN catalog : \A j \in DOMAIN NKOf(catalog, i) :
          LET f == NKOf(catalog, i)[j].facts
          IN FiniteOrNull(f, "prep_weeks") /\ FiniteOrNull(f, "hours_per_week")

InUnit(f) == f[2] > 0 /\ 0 <= f[1] /\ f[1] <= f[2]

\* C30: the token-Jaccard term is the same for (a, b) and (b, a); the score
\* 0.6*dice + 0.4*tokenJacc lies in [0,1]; candidates(query, k) returns at
\* most k catalog entries, in non-increasing order of score.
C30_ScoreBoundedAndOrdered ==
    /\ call.fn = "score"
       => /\ ret.jab = ret.jba
          /\ InUnit(ret.jab) /\ InUnit(ret.dab) /\ InUnit(ret.score)
    /\ call.fn = "candidates"
       => /\ Len(ret.out) <= call.k
          /\ \A i \in DOMAIN ret.out :
                \E j \in DOMAIN teilleistungen : ret.out[i] = teilleistungen[j]
          /\ \A i, j \in DOMAIN ret.out :
                i < j => ~ScoreLess(score(call.query, ret.out[i].title),
                                    score(call.query, ret.out[j].title))

\* Two strings that share one of their words and several bigrams, neither
\* equal nor disjoint.
C30_Witness ==
    /\ call.fn = "score"
    /\ call.a # call.b
    /\ 0 < ret.jab[1] /\ ret.jab[1] < ret.jab[2]
    /\ 0 < ret.dab[1] /\ ret.dab[1] < ret.dab[2]
    /\ 0 < ret.score[1] /\ ret.score[1] < ret.score[2]

\* The better of two scored courses was returned alone.
C30_WitnessCandidates ==
    /\ call.fn = "candidates" /\ call.k = 1 /\ Len(ret.out) = 1
    /\ \E j \in DOMAIN teilleistungen :
          ScoreLess(score(call.query, teilleistungen[j].title),
                    score(call.query, ret.out[1].title))

(***************************************************************************)
(* Claims about course identification                                      *)
(***************************************************************************)
\* C31: a turn handled while awaiting_written_confirm is set (set by the
\* combined confirmation with title yes and wrote null), that is neither an
\* abort nor answered from a disabled or failing oracle, is decided by the
\* written classifier: it takes the true, the false or the reprompt path.
C31_WrittenReplyClassified ==
    [][(/\ RetrieveStep
        /\ PreSession(last'.sid).current.awaiting_written_confirm
        /\ last'.err = "none"
        /\ last'.path \notin {"abort", "llm_disabled"})
       => last'.path \in {"in_tl_written", "in_tl_not_written", "in_tl_reprompt"}]_vars

\* C32: after a combined confirmation with title yes and wrote false the id
\* of the candidate that was pending is in the declined list and is the only
\* id the turn added to it, pending_tl_candidate is null,
\* awaiting_title_written_confirm is false and the stage is tl_search.
C32_DeclineRecordsPending ==
    [][(RetrieveStep /\ last'.err = "none" /\ last'.path = "confirm_not_written")
       => LET pre == PreSession(last'.sid).current
              post == sessions'[last'.sid]
              id == pre.pending_tl_candidate[1].id
          IN /\ id \in Range(post.current.declinedWritten)
             /\ Range(post.current.declinedWritten)
                  \subseteq Range(pre.declinedWritten) \cup {id}
             /\ post.current.pending_tl_candidate = <<>>
             /\ ~post.current.awaiting_title_written_confirm
             /\ post.stage = "tl_search"]_vars

\* The reply of detect_entities names one course
OneMention(dr) ==
    /\ dr # NoObject
    /\ Len(dr[1].found_tl_list) <= 1
    /\ dr[1].found_tl_text # Null \/ Len(dr[1].found_tl_list) = 1

\* The reply of resolve_tl names a course with confidence >= 0.6
ResolvedReply(rr) ==
    /\ rr # NoObject
    /\ rr[1].match_id # Null
    /\ rr[1].confidence.t = "num" /\ rr[1].confidence.n >= 60

NoAwaiting(c) ==
    /\ ~c.awaiting_written_confirm /\ ~c.awaiting_title_written_confirm
    /\ ~c.awaiting_candidate_choice /\ ~c.awaiting_tl_title_confirm

C33_WitnessDirect ==
    /\ last.op = "retrieve" /\ last.path = "enter_in_tl"
    /\ call.fn = "oracle" /\ ResolvedReply(call.res)
    /\ call.det[1].wrote_prob = JNum(85)
    /\ sessions[last.sid].stage = "in_tl"

\* C34: a session spends at most two consecutive handled turns in general:
\* the stage general is entered with general_q = 0; a turn handled in
\* general either leaves the stage or adds one to general_q and leaves it
\* below 2; the general question that brings general_q to 2 ends in tl_search.
C34_TwoGeneralTurns ==
    [][(/\ RetrieveStep /\ last'.err = "none" /\ last'.path # "llm_disabled")
       => LET pre == PreSession(last'.sid)
              post == sessions'[last'.sid]
          IN /\ (pre.stage # "general" /\ post.stage = "general")
                   => post.counters.general_q = 0
             /\ (pre.stage = "general" /\ post.stage = "general")
                   => /\ post.counters.general_q = pre.counters.general_q + 1
                      /\ post.counters.general_q < 2
             /\ (pre.stage = "general" /\ last'.path = "general_more")
                   => /\ post.counters.general_q = pre.counters.general_q + 1
                      /\ post.counters.general_q = 2 => post.stage = "tl_search"]_vars

\* The second general question has been asked and the stage is tl_search.
C34_Witness ==
    /\ last.op = "retrieve" /\ last.path = "general_more"
    /\ sessions[last.sid].counters.general_q = 2
    /\ sessions[last.sid].stage = "tl_search"

(***************************************************************************)
(* Claims about the least-known heuristic (checked under SpecFn)           *)
(***************************************************************************)
RECURSIVE SumOver(_, _)
SumOver(F(_), sq) == IF sq = <<>> THEN 0 ELSE F(Head(sq)) + SumOver(F, Tail(sq))

NonEmptyLists(f) ==
    Cardinality({k \in Range(ListKeys) : Get(f, k).t = "list" /\ Get(f, k).l # <<>>})

\* 1 per scalar fact that holds a value, 1 per non-empty list field
PopulatedSignals(f) ==
    Cardinality({k \in Range(ScalarKeys) : Get(f, k).t # "null"}) + NonEmptyLists(f)

\* 1 for a non-empty exam_type, 1 per numeric fact that holds a number, 1 per
\* non-empty list field
TypedSignals(f) ==
    (IF Get(f, "exam_type").t = "str" /\ Get(f, "exam_type").s # "" THEN 1 ELSE 0)
    + Cardinality({k \in Range(ScalarKeys) \ {"exam_type"} : Get(f, k).t = "num"})
    + NonEmptyLists(f)

Min2(n) == IF n < 2 THEN n ELSE 2

\* The entry of the catalog for an id: by teilleistung_id, or by the id in
\* brackets in the title
EntryOf(cat, id) ==
    {i \in DOMAIN cat : cat[i].teilleistung_id = id \/ bracketId(cat[i].title) = id}

\* The information score as stated: over all characters of the text
StatedScore(cat, id) ==
    IF EntryOf(cat, id) = {} THEN 0
    ELSE LET e == cat[CHOOSE i \in EntryOf(cat, id) : \A j \in EntryOf(cat, id) : i <= j]
             Sig(n) == PopulatedSignals(n.facts)
         IN SumOver(Sig, e.New_Knowledge) + Min2(Len(e.New_Knowledge))
            + (IF e.textLen > 200 THEN 1 ELSE 0)

\* The information score over typed facts and the text without the white
\* space at its ends
TrimmedScore(cat, id) ==
    IF EntryOf(cat, id) = {} THEN 0
    ELSE LET e == cat[CHOOSE i \in EntryOf(cat, id) : \A j \in EntryOf(cat, id) : i <= j]
             Sig(n) == TypedSignals(n.facts)
         IN SumOver(Sig, e.New_Knowledge) + Min2(Len(e.New_Knowledge))
            + (IF e.trimLen > 200 THEN 1 ELSE 0)

\* best is the first element of list with the least value of Sc
FirstLeast(Sc(_), list, best) ==
    \E i \in DOMAIN list :
        /\ list[i] = best
        /\ \A j \in DOMAIN list : Sc(list[i].id) <= Sc(list[j].id)
        /\ \A j \in 1..(i - 1) : Sc(list[j].id) > Sc(list[i].id)

\* C35: of several resolved courses the one chosen has the minimum
\* information score (1 per populated scalar fact and 1 per non-empty list
\* field of each prior entry, plus min(2, number of prior entries), plus 1
\* for a descriptor text longer than 200 characters), the first of them in
\* input order.
C35_LeastKnownFirst ==
    call.fn = "pickLeastKnownOfResolved"
    => LET Sc(id) == StatedScore(call.cat, id)
       IN FirstLeast(Sc, call.resolved, ret.best)

\* C35, amended: the score counts a non-empty exam_type, each numeric fact
\* that holds a number and each non-empty list field, and adds 1 when the
\* descriptor text without the white space at its ends is longer than 200
\* characters.
C35_LeastKnownFirstTrimmed ==
    call.fn = "pickLeastKnownOfResolved"
    => LET Sc(id) == TrimmedScore(call.cat, id)
       IN FirstLeast(Sc, call.resolved, ret.best)

\* Of two courses with equal scores above 0 the first was chosen, and it is
\* the second course of the catalog.
C35_Witness ==
    /\ call.fn = "pickLeastKnownOfResolved"
    /\ call.resolved[1].id = "T-2" /\ ret.best = call.resolved[1]
    /\ TrimmedScore(call.cat, "T-2") = TrimmedScore(call.cat, "T-1")
    /\ TrimmedScore(call.cat, "T-2") > 2

(***************************************************************************)
(* Claims about unparseable replies (checked under SpecDegraded)           *)
(***************************************************************************)
\* What the controller says without a usable reply: a question of a pool,
\* the fixed identification question, the yes/no reprompt, the reminder, or
\* the combined question for the pending course
FallbackTexts(s) ==
    {<<q>> : q \in Range(Phase1Pool) \cup Range(Phase3Pool) \cup Range(Phase4Pool)
                   \cup {IdentifyFallback, PoolEmptyFallback}}
    \cup {MsgReprompt, MsgRemind}
    \cup {combinedQuestion(catalog, c.id, c.title) : c \in Range(s.current.pending_tl_candidate)}

\* C36: a turn in which every reply of the oracle is unparseable does not
\* take the error path and is not an abort; it resolves no course (no
\* pending candidate or tl_id is set, in_tl is not entered); its answer is
\* one of the fallback texts; and the third such turn in a row, counted
\* from await_semester_progress, ends in tl_search.
C36_DegradedOracleProgresses ==
    [][(RetrieveStep /\ call'.degraded)
       => LET pre == PreSession(last'.sid)
              post == sessions'[last'.sid]
          IN /\ last'.err = "none" /\ last'.path # "abort"
             /\ post.current.pending_tl_candidate \in {<<>>, pre.current.pending_tl_candidate}
             /\ post.current.tl_id \in {Null, pre.current.tl_id}
             /\ post.stage = "in_tl" => pre.stage = "in_tl"
             /\ LastEntry(post).role = "assistant"
             /\ LastEntry(post).content \in FallbackTexts(pre)
             /\ pre.stage = "await_semester_progress" => post.stage = "general"
             /\ call'.n = 3 => post.stage = "tl_search"]_vars

\* Three unparseable turns from await_semester_progress on have been
\* handled and the stage is tl_search.
C36_Witness ==
    /\ call.fn = "oracle" /\ call.degraded /\ call.n = 3
    /\ last.op = "retrieve" /\ last.path = "general_more"
    /\ sessions[last.sid].stage = "tl_search"

(***************************************************************************)
(* Claims about the answer of evaluation.start (checked under SpecRuns)    *)
(***************************************************************************)
\* C37: in two runs that differ only in the facts saved by other sessions,
\* evaluation.start of a session answers with the same new_knowledge and
\* the same knowledge_markdown.
C37_OwnSavesOnly ==
    ret.fn = "evaluation.start"
        => /\ ret.one.new_knowledge = ret.two.new_knowledge
           /\ ret.one.knowledge_markdown = ret.two.knowledge_markdown

\* evaluation.start has answered with knowledge of a course on which the two
\* runs hold different facts of another session.
C37_Witness ==
    /\ ret.fn = "evaluation.start"
    /\ ret.one.new_knowledge # <<>>
    /\ \E i \in 1..Len(catalog) :
          /\ \E j \in 1..Len(catalog[i].New_Knowledge) :
                catalog[i].New_Knowledge[j].sessionId = "s1"
          /\ \E j \in 1..Len(catalog[i].New_Knowledge) :
                catalog[i].New_Knowledge[j].sessionId = "s2"
          /\ catalog[i].New_Knowledge # call.ks.catalog[i].New_Knowledge

(***************************************************************************)
(* Claims about the awaiting flags                                         *)
(***************************************************************************)
\* C38: in every persisted session, awaiting_candidate_choice or
\* awaiting_title_written_confirm implies stage tl_search.
C38_AwaitingOnlyInTlSearch ==
    \A sid \in DOMAIN sessions :
        (sessions[sid].current.awaiting_candidate_choice
         \/ sessions[sid].current.awaiting_title_written_confirm)
            => sessions[sid].stage = "tl_search"

(***************************************************************************)
(* Claims about turns that end in an error message                         *)
(***************************************************************************)
\* C39: a retrieve turn answered with an oracle-error message (quota, rate
\* limit or other) leaves the catalog's New_Knowledge and the global JSON-LD
\* and Turtle files as they were.
C39_ErrorTurnKeepsKnowledge ==
    [][(last'.op = "retrieve" /\ last'.err # "none")
       => /\ catalog' = catalog
          /\ kgJsonld' = kgJsonld
          /\ kgTurtle' = kgTurtle]_vars

(***************************************************************************)
(* Claims about DELETE /api/conversations/:sessionId (checked under        *)
(* SpecDelete)                                                             *)
(***************************************************************************)
\* C40: a deleted session stays absent from the persisted store until a
\* later request for its id arrives: the end of a retrieve turn that was
\* suspended at an oracle call, which is no arrival of a request, adds no
\* session to the store; and a delete removes exactly the session named, or
\* answers 404 and changes nothing.
C40_DeletedStaysAbsent ==
    [][/\ last'.op = "retrieve_end" => DOMAIN sessions' \subseteq DOMAIN sessions
       /\ last'.op = "delete"
            => IF last'.err = "404"
               THEN last'.sid \notin DOMAIN sessions /\ sessions' = sessions
               ELSE /\ DOMAIN sessions' = DOMAIN sessions \ {last'.sid}
                    /\ \A x \in DOMAIN sessions' : sessions'[x] = sessions[x]]_vars

\* C40, the part on the delete itself
C40_DeleteRemovesOne ==
    [][last'.op = "delete"
            => IF last'.err = "404"
               THEN last'.sid \notin DOMAIN sessions /\ sessions' = sessions
               ELSE /\ DOMAIN sessions' = DOMAIN sessions \ {last'.sid}
                    /\ \A x \in DOMAIN sessions' : sessions'[x] = sessions[x]]_vars

====
